---- MODULE Spec2Model ----
(***************************************************************************)
(* Model of the jsonlog handler of svcrunner (package jsonlog): the        *)
(* Attribute State (state.clone/openGroup/closeGroup/closeAll/attr), the   *)
(* handler (New/clone/Enabled/WithAttrs/WithGroup/Handle), the process     *)
(* wide sync.Pool of byte buffers and the lock protected sink.             *)
(* Package envflag (Config.Parse over a flag set) is modelled next to it.   *)
(*                                                                         *)
(* Bytes are modelled as sequences of lexical tokens.  Every token has a   *)
(* byte width, so lengths, marks and capacities are byte counts as in the  *)
(* source and the constants 1024 and 160 keep their values.                *)
(***************************************************************************)
EXTENDS Integers, Sequences, FiniteSets, Bags, TLC

\* ------------------------------------------------------------------------
\* Bounds of the model
\* ------------------------------------------------------------------------
MaxHandlers == 2     \* handlers of the lineage, the root included
MaxCalls == 2        \* Handle calls started in one concurrent behaviour
MaxPool == 1         \* buffers kept by the pool (sync.Pool may drop any)
FoldHandlers == 3    \* handlers of the lineage in the sequential behaviours
FoldCalls == 1       \* calls started in one sequential behaviour
PoolHandlers == 3    \* handlers of the lineage in the buffer pool behaviours
PoolCalls == 2       \* calls started in one buffer pool behaviour
MaxArgs == 2         \* command line arguments given to Parse
MaxEnv == 2          \* environment entries given to Parse
MaxStateBytes == 11  \* length of a buffer that state operations still extend

\* the goroutines calling Handle
Procs == {1, 2}

\* ------------------------------------------------------------------------
\* Program constants
\* ------------------------------------------------------------------------
stateBufferSize == 1024
renderHeadroom == 160
LevelDebug == 0 - 4
LevelInfo == 0

\* ------------------------------------------------------------------------
\* Tokens: the byte strings the code appends
\* ------------------------------------------------------------------------
P(c) == [t |-> "punct", v |-> c]
Str(s) == [t |-> "str", v |-> s]
Lit(s) == [t |-> "lit", v |-> s]
NL == [t |-> "nl", v |-> "\n"]

\* byte length of a name; LONG stands for a name of 1100 bytes
NameLen(s) == IF s = "LONG" THEN 1100 ELSE Len(s)

\* byte width of one token
Width(tok) ==
    CASE tok.t = "str" -> NameLen(tok.v) + 2
      [] OTHER -> Len(tok.v)

RECURSIVE BLen(_)
BLen(b) == IF b = <<>> THEN 0 ELSE Width(Head(b)) + BLen(Tail(b))

\* b[:n] for a byte count n that falls on a token boundary
RECURSIVE Take(_, _)
Take(b, n) ==
    IF b = <<>> \/ n <= 0 THEN <<>>
    ELSE IF Width(Head(b)) > n THEN <<>>
    ELSE <<Head(b)>> \o Take(Tail(b), n - Width(Head(b)))

\* json.Marshal of a string: the quoted string
jsonString(s) == <<Str(s)>>

\* json.Marshal of a resolved scalar value; a value json.Marshal rejects
\* yields an empty byte slice (the error is discarded)
jsonBytes(val) ==
    CASE val.kind = "string" -> jsonString(val.v)
      [] val.kind = "int" -> <<Lit(val.v)>>
      [] val.kind = "bool" -> <<Lit(val.v)>>
      [] OTHER -> <<>>

\* growth of the capacity by append (runtime growslice, size classes ignored)
RECURSIVE growLoop(_, _)
growLoop(newcap, need) ==
    IF newcap >= need THEN newcap
    ELSE growLoop(newcap + ((newcap + 768) \div 4), need)

growCap(oldcap, need) ==
    IF need <= oldcap THEN oldcap
    ELSE IF need > 2 * oldcap THEN need
    ELSE IF oldcap < 256 THEN 2 * oldcap
    ELSE growLoop(oldcap, need)

\* ------------------------------------------------------------------------
\* Attribute values (slog.Attr / slog.Value)
\* ------------------------------------------------------------------------
IntV(n) == [kind |-> "int", v |-> n]
StrV(s) == [kind |-> "string", v |-> s]
GroupV(as) == [kind |-> "group", g |-> as]
LazyV(val) == [kind |-> "lazy", inner |-> val]   \* a LogValuer
ZeroV == [kind |-> "zero"]                       \* slog.Value{}
NaNV == [kind |-> "nan"]                         \* slog.Float64Value(NaN)
Attr(k, val) == [key |-> k, value |-> val]
ZeroAttr == Attr("", ZeroV)                      \* slog.Attr{}

\* Value.Resolve: calls LogValue until the value is not a LogValuer
RECURSIVE Resolve(_)
Resolve(val) == IF val.kind = "lazy" THEN Resolve(val.inner) ELSE val

\* ------------------------------------------------------------------------
\* Attribute State
\* ------------------------------------------------------------------------
appendBuf(s, toks) ==
    [s EXCEPT !.buf = s.buf \o toks,
              !.cap = growCap(s.cap, BLen(s.buf) + BLen(toks))]

\* a state that starts with a separator pending
newStateComma ==
    [confirmedLast |-> 0, groupOpenIdx |-> <<>>, separator |-> <<P(",")>>,
     buf |-> <<>>, cap |-> 0]

newState ==
    [confirmedLast |-> 0, groupOpenIdx |-> <<>>, separator |-> <<>>,
     buf |-> <<>>, cap |-> 0]

openGroup(s, n) ==
    LET s1 == [s EXCEPT !.groupOpenIdx = Append(s.groupOpenIdx, BLen(s.buf))]
        s2 == appendBuf(s1, s1.separator)
        s3 == appendBuf(s2, jsonString(n))
        s4 == appendBuf(s3, <<P(":"), P("{")>>)
    IN  [s4 EXCEPT !.separator = <<>>]

\* the buffer is cut back to the mark whatever was confirmed
closeGroupAlwaysCuts(s) ==
    LET n == Len(s.groupOpenIdx)
        lastGroupIdx == s.groupOpenIdx[n]
        s1 == [s EXCEPT !.groupOpenIdx = SubSeq(s.groupOpenIdx, 1, n - 1)]
    IN  [s1 EXCEPT !.buf = Take(s1.buf, lastGroupIdx)]

\* a group counts as non empty when confirmedLast is at its mark
closeGroupAtMark(s) ==
    LET n == Len(s.groupOpenIdx)
        lastGroupIdx == s.groupOpenIdx[n]
        s1 == [s EXCEPT !.groupOpenIdx = SubSeq(s.groupOpenIdx, 1, n - 1)]
    IN  IF s1.confirmedLast >= lastGroupIdx
        THEN LET s2 == appendBuf(s1, <<P("}")>>)
             IN  [s2 EXCEPT !.confirmedLast = BLen(s2.buf)]
        ELSE [s1 EXCEPT !.buf = Take(s1.buf, lastGroupIdx)]

closeGroup(s) ==
    LET n == Len(s.groupOpenIdx)
        lastGroupIdx == s.groupOpenIdx[n]
        s1 == [s EXCEPT !.groupOpenIdx = SubSeq(s.groupOpenIdx, 1, n - 1)]
    IN  IF s1.confirmedLast > lastGroupIdx
        THEN LET s2 == appendBuf(s1, <<P("}")>>)
             IN  [s2 EXCEPT !.confirmedLast = BLen(s2.buf)]
        ELSE [s1 EXCEPT !.buf = Take(s1.buf, lastGroupIdx)]

RECURSIVE closeN(_, _)
closeN(s, k) == IF k = 0 THEN s ELSE closeN(closeGroup(s), k - 1)

\* closes the innermost group only
closeAllInnermost(s) ==
    [closeN(s, IF Len(s.groupOpenIdx) > 0 THEN 1 ELSE 0)
        EXCEPT !.groupOpenIdx = <<>>]

closeAll(s) ==
    [closeN(s, Len(s.groupOpenIdx)) EXCEPT !.groupOpenIdx = <<>>]

RECURSIVE attr(_, _)
RECURSIVE attrs(_, _)
\* a keyed group is not closed after its members
attrUnclosed(s, a) ==
    LET val == Resolve(a.value)
    IN  IF a = ZeroAttr THEN s
        ELSE IF val.kind = "group"
        THEN IF Len(val.g) = 0 THEN s
             ELSE attrs(IF a.key # "" THEN openGroup(s, a.key) ELSE s, val.g)
        ELSE IF a.key = "" THEN s
        ELSE LET s1 == appendBuf(s, s.separator)
                 s2 == [s1 EXCEPT !.separator = <<P(",")>>]
                 s3 == appendBuf(s2, jsonString(a.key))
                 s4 == appendBuf(s3, <<P(":")>>)
                 s5 == appendBuf(s4, jsonBytes(val))
             IN  [s5 EXCEPT !.confirmedLast = BLen(s5.buf)]

\* a group is opened and closed whatever its key
attrOpensEmptyKey(s, a) ==
    LET val == Resolve(a.value)
    IN  IF a = ZeroAttr THEN s
        ELSE IF val.kind = "group"
        THEN IF Len(val.g) = 0 THEN s
             ELSE closeGroup(attrs(openGroup(s, a.key), val.g))
        ELSE IF a.key = "" THEN s
        ELSE LET s1 == appendBuf(s, s.separator)
                 s2 == [s1 EXCEPT !.separator = <<P(",")>>]
                 s3 == appendBuf(s2, jsonString(a.key))
                 s4 == appendBuf(s3, <<P(":")>>)
                 s5 == appendBuf(s4, jsonBytes(val))
             IN  [s5 EXCEPT !.confirmedLast = BLen(s5.buf)]

\* a scalar with an empty key is written like any other
attrEmptyKeyWritten(s, a) ==
    LET val == Resolve(a.value)
    IN  IF a = ZeroAttr THEN s
        ELSE IF val.kind = "group"
        THEN IF Len(val.g) = 0 THEN s
             ELSE LET s1 == IF a.key # "" THEN openGroup(s, a.key) ELSE s
                      s2 == attrs(s1, val.g)
                  IN  IF a.key # "" THEN closeGroup(s2) ELSE s2
        ELSE LET s1 == appendBuf(s, s.separator)
                 s2 == [s1 EXCEPT !.separator = <<P(",")>>]
                 s3 == appendBuf(s2, jsonString(a.key))
                 s4 == appendBuf(s3, <<P(":")>>)
                 s5 == appendBuf(s4, jsonBytes(val))
             IN  [s5 EXCEPT !.confirmedLast = BLen(s5.buf)]

attr(s, a) ==
    LET val == Resolve(a.value)
    IN  IF a = ZeroAttr THEN s
        ELSE IF val.kind = "group"
        THEN IF Len(val.g) = 0 THEN s
             ELSE LET s1 == IF a.key # "" THEN openGroup(s, a.key) ELSE s
                      s2 == attrs(s1, val.g)
                  IN  IF a.key # "" THEN closeGroup(s2) ELSE s2
        ELSE IF a.key = "" THEN s
        ELSE LET s1 == appendBuf(s, s.separator)
                 s2 == [s1 EXCEPT !.separator = <<P(",")>>]
                 s3 == appendBuf(s2, jsonString(a.key))
                 s4 == appendBuf(s3, <<P(":")>>)
                 s5 == appendBuf(s4, jsonBytes(val))
             IN  [s5 EXCEPT !.confirmedLast = BLen(s5.buf)]

\* the LogValue calls of Value.Resolve on val, outermost LogValuer first
RECURSIVE resolveCalls(_)
resolveCalls(val) ==
    IF val.kind = "lazy" THEN <<val>> \o resolveCalls(val.inner) ELSE <<>>

RECURSIVE attrCalls(_)
RECURSIVE attrsCalls(_)
\* the group is read through a second Resolve of the attribute's value
attrCallsAgain(a) ==
    LET val == Resolve(a.value)
        own == resolveCalls(a.value)
    IN  IF a = ZeroAttr THEN own
        ELSE IF val.kind = "group"
        THEN IF Len(val.g) = 0 THEN own
             ELSE own \o own \o attrsCalls(val.g)
        ELSE own

\* the LogValue calls state.attr makes while it processes a: those of the
\* one Resolve at its head, then those of the calls on a group's members
attrCalls(a) ==
    LET val == Resolve(a.value)
        own == resolveCalls(a.value)
    IN  IF a = ZeroAttr THEN own
        ELSE IF val.kind = "group"
        THEN IF Len(val.g) = 0 THEN own
             ELSE own \o attrsCalls(val.g)
        ELSE own

attrsCalls(as) ==
    IF as = <<>> THEN <<>> ELSE attrCalls(Head(as)) \o attrsCalls(Tail(as))

\* folds the attributes last to first
RECURSIVE attrsReversed(_, _)
attrsReversed(s, as) ==
    IF as = <<>> THEN s ELSE attr(attrsReversed(s, Tail(as)), Head(as))

\* the range loops over attribute lists
attrs(s, as) == IF as = <<>> THEN s ELSE attrs(attr(s, Head(as)), Tail(as))

\* ------------------------------------------------------------------------
\* Inputs
\* ------------------------------------------------------------------------
aA == Attr("a", IntV("1"))
aB == Attr("b", IntV("2"))
aS == Attr("c", StrV("d"))
aE == Attr("", IntV("3"))                          \* scalar with empty key
gB == Attr("g", GroupV(<<aB>>))                    \* group with a member
gE == Attr("n", GroupV(<<aE>>))                    \* only a dropped member
gL == Attr("n", GroupV(<<Attr("o", LazyV(GroupV(<<>>)))>>))
gI == Attr("", GroupV(<<aB>>))                     \* inlined group
g0 == Attr("n", GroupV(<<>>))                      \* group of no members
aN == Attr("k", NaNV)                              \* json.Marshal fails

Record(l, t, tr, m, as) ==
    [level |-> l, time |-> t, trace |-> tr, message |-> m, attrs |-> as]

\* inputs of the concurrent specification
GroupNames == {"g"}
HandleRecords ==
    {Record(LevelInfo, FALSE, FALSE, "m", <<>>),
     Record(LevelInfo, FALSE, FALSE, "m", <<aB>>)}

\* inputs of the buffer pool specification: a group with a name of 1100
\* bytes and no shown member, a record with a trace, a message of 1100 bytes
gLong == Attr("LONG", GroupV(<<aE>>))
PoolDerive == {<<gLong>>}
PoolRecords ==
    {Record(LevelInfo, FALSE, FALSE, "m", <<>>),
     Record(LevelInfo, FALSE, TRUE, "m", <<>>),
     Record(LevelInfo, FALSE, FALSE, "LONG", <<>>)}

\* inputs of the ownership specification
OwnRecords == {Record(LevelInfo, FALSE, FALSE, "m", <<>>)}

\* inputs of the Attribute State specification
aZ == Attr("z", LazyV(IntV("5")))                  \* a LogValuer scalar
gI2 == Attr("", GroupV(<<aA, gB>>))                \* inlined, two members
gZ == Attr("", LazyV(GroupV(<<aB>>)))              \* inlined LogValuer group
StateAttrs == {aA, aE, ZeroAttr, g0, gE, gB, gI, gI2, gL, aZ, gZ}

\* inputs of the LogValuer specification: the values given at derivation and
\* the values of the records are different LogValuers
aY == Attr("y", LazyV(LazyV(StrV("v"))))           \* LogValuer of a LogValuer
gR == Attr("n", GroupV(<<Attr("o", LazyV(GroupV(<<aE>>)))>>))
LazyDerive == {<<aZ>>, <<gL>>, <<gZ, aZ>>}
LazyRecords ==
    {Record(LevelInfo, FALSE, FALSE, "m", as) :
        as \in {<<>>, <<aY>>, <<aA, gR, aY>>}}

\* inputs of the closing specification
CloseNames == {"g", "n"}
CloseDerive == {<<aA>>, <<gB>>, <<gE>>}
CloseRecords ==
    {Record(LevelInfo, FALSE, FALSE, "m", as) :
        as \in {<<>>, <<aA>>, <<gE>>, <<gB>>}}

\* inputs of the level specification
Levels == {LevelDebug, LevelInfo}
LevelDerive == {<<aA>>}
LevelRecords == {Record(l, FALSE, FALSE, "m", <<>>) : l \in Levels}

\* inputs of the sequential specification
FoldDerive == {<<>>, <<aA, gE, aB>>}
FoldNames == {"", "g", "n"}
FoldAttrs == {<<aA, aA>>, <<gB>>, <<gI, aS>>, <<aA, gE, aB>>,
              <<ZeroAttr, g0>>, <<gL, aB>>, <<aA, aN>>}
FoldRecords ==
    {Record(LevelInfo, FALSE, FALSE, "m", as) : as \in FoldAttrs}
        \cup {Record(LevelDebug, FALSE, FALSE, "m", <<aA>>)}
LogRecords ==
    {Record(LevelInfo, TRUE, TRUE, "m", <<aA>>),
     Record(LevelDebug, TRUE, FALSE, "m", <<aA>>)}

\* ------------------------------------------------------------------------
\* State of the program
\* ------------------------------------------------------------------------
\* ------------------------------------------------------------------------
\* envflag: text is a sequence of characters
\* ------------------------------------------------------------------------
\* strings.ToUpper on the letters that occur in the names
ToUpper(t) ==
    [i \in DOMAIN t |->
        CASE t[i] = "a" -> "A" [] t[i] = "b" -> "B" [] t[i] = "n" -> "N"
          [] OTHER -> t[i]]

\* strings.ReplaceAll with a one character pattern
ReplaceAll(t, old, new) ==
    [i \in DOMAIN t |-> IF t[i] = old THEN new ELSE t[i]]

\* the dash is left as it is
envKeyDotsOnly(name) == ReplaceAll(ToUpper(name), ".", "_")

\* the key Parse looks up for the flag called name
envKey(name) ==
    ReplaceAll(ReplaceAll(ToUpper(name), ".", "_"), "-", "_")

\* strings.Cut(e, "=")
Cut(e) ==
    LET at == {i \in DOMAIN e : e[i] = "="}
    IN  IF at = {} THEN [k |-> e, v |-> <<>>, ok |-> FALSE]
        ELSE LET i == CHOOSE j \in at : \A m \in at : j <= m
             IN  [k |-> SubSeq(e, 1, i - 1), v |-> SubSeq(e, i + 1, Len(e)),
                  ok |-> TRUE]

\* mapEnv after the loop over env: a later entry replaces an earlier one
RECURSIVE mapEnv(_, _)
mapEnv(env, m) ==
    IF env = <<>> THEN m
    ELSE LET c == Cut(Head(env))
         IN  mapEnv(Tail(env),
                    IF c.ok
                    THEN {p \in m : p.k # c.k} \cup {[k |-> c.k, v |-> c.v]}
                    ELSE m)

Digits == {"0", "1", "2", "3", "4", "5", "6", "7", "8", "9"}

digit(ch) ==
    CASE ch = "0" -> 0 [] ch = "1" -> 1 [] ch = "2" -> 2 [] ch = "3" -> 3
      [] ch = "4" -> 4 [] ch = "5" -> 5 [] ch = "6" -> 6 [] ch = "7" -> 7
      [] ch = "8" -> 8 [] OTHER -> 9

RECURSIVE decimal(_, _)
decimal(t, acc) ==
    IF t = <<>> THEN acc ELSE decimal(Tail(t), acc * 10 + digit(Head(t)))

\* strconv.ParseInt on unsigned decimal text: 0 and an error otherwise
ParseInt(t) ==
    IF t # <<>> /\ \A i \in DOMAIN t : t[i] \in Digits
    THEN [v |-> decimal(t, 0), ok |-> TRUE]
    ELSE [v |-> 0, ok |-> FALSE]

\* c.StringVar / c.IntVar: a flag of the flag set at its default
Flag(name, kind, text, num) ==
    [name |-> name, kind |-> kind, text |-> text, num |-> num,
     deftext |-> text, defnum |-> num]

\* f.Value.Set(v): a string flag takes any text; an int flag stores what
\* ParseInt returned, also when it failed
Set(f, v) ==
    IF f.kind = "string" THEN [f |-> [f EXCEPT !.text = v], ok |-> TRUE]
    ELSE [f |-> [f EXCEPT !.num = ParseInt(v).v], ok |-> ParseInt(v).ok]

\* c.VisitAll(...): every flag whose key is in mapEnv is set from it
setFromEnv(flags, m) ==
    LET has(f) == \E p \in m : p.k = envKey(f.name)
        val(f) == (CHOOSE p \in m : p.k = envKey(f.name)).v
    IN  [flags |-> {IF has(f) THEN Set(f, val(f)).f ELSE f : f \in flags},
         errs |-> {f.name : f \in {x \in flags :
                                      has(x) /\ ~Set(x, val(x)).ok}}]

\* c.FlagSet.Parse(args) on arguments of the form -name=value: it stops with
\* an error at a flag that is not defined or whose value is rejected
RECURSIVE parseArgs(_, _)
parseArgs(flags, args) ==
    IF args = <<>> THEN [flags |-> flags, ok |-> TRUE]
    ELSE LET a == Head(args)
             hit == {f \in flags : f.name = a.name}
         IN  IF hit = {} THEN [flags |-> flags, ok |-> FALSE]
             ELSE LET f == CHOOSE x \in hit : TRUE
                      r == Set(f, a.v)
                      fs == (flags \ {f}) \cup {r.f}
                  IN  IF r.ok THEN parseArgs(fs, Tail(args))
                      ELSE [flags |-> fs, ok |-> FALSE]

\* envflag.New: an empty flag set
NewConfig ==
    [flags |-> {}, parsed |-> FALSE, args |-> <<>>, env |-> <<>>,
     err |-> "nil"]

\* inputs of the flag specification
nDot == <<"a", ".", "b">>
nDash == <<"a", "-", "b">>
nInt == <<"n">>
FlagDefs ==
    {Flag(nDot, "string", <<"d">>, 0), Flag(nDash, "string", <<"d">>, 0),
     Flag(nInt, "int", <<>>, 0)}
EnvEntries ==
    {<<"A", "_", "B", "=", "v">>, <<"a", "_", "b", "=", "w">>,
     <<"N", "=", "1">>, <<"N", "=", "x">>, <<"N">>}
Arg(name, v) == [name |-> name, v |-> v]
ArgEntries == {Arg(nDash, <<"c">>), Arg(nInt, <<"2">>)}
UpTo(S, n) == UNION {[1..k -> S] : k \in 0..n}
ArgLists == UpTo(ArgEntries, MaxArgs)
EnvLists == UpTo(EnvEntries, MaxEnv)

\* ------------------------------------------------------------------------
\* svcrunner: the processes given to Options.Run, and run's local state
\* ------------------------------------------------------------------------
MaxProcs == 2      \* processes given to Options.Run
MaxSignals == 2    \* SIGINT / SIGTERM delivered while run is running
MaxFuncs == 2      \* Start and Stop hooks set among the processes
sigcCap == 2       \* make(chan os.Signal, 2)

\* a Process: its name, and for every hook whether it is set
Process(name, reg, init, start, stop) ==
    [Name |-> name, Register |-> reg, Init |-> init, Start |-> start,
     Stop |-> stop]

ProcShapes ==
    {Process("", TRUE, TRUE, TRUE, TRUE),        \* every hook
     Process("p", FALSE, TRUE, FALSE, FALSE),    \* Init only
     Process("q", FALSE, FALSE, TRUE, FALSE),    \* Start only
     Process("", TRUE, FALSE, FALSE, TRUE)}      \* Register and Stop

\* the Start and Stop hooks set in procs[i..]
RECURSIVE hooks(_, _)
hooks(procs, i) ==
    IF i > Len(procs) THEN 0
    ELSE (IF procs[i].Start THEN 1 ELSE 0) + (IF procs[i].Stop THEN 1 ELSE 0)
            + hooks(procs, i + 1)

ProcLists ==
    {procs \in UNION {[1..n -> ProcShapes] : n \in 0..MaxProcs} :
        hooks(procs, 1) <= MaxFuncs}

\* strconv.Itoa, for the indexes of a short list
Itoa(i) == <<"0", "1", "2", "3", "4", "5", "6", "7", "8", "9">>[i + 1]

\* Options.Run: a process without a name is named after its index
named(procs) ==
    [i \in 1..Len(procs) |->
        IF procs[i].Name = ""
        THEN [procs[i] EXCEPT !.Name = Itoa(i - 1)]
        ELSE procs[i]]

\* the error run returns: nil, or what fmt.Errorf / errors.New was given
Error(kind, name) == [kind |-> kind, name |-> name]
nil == Error("nil", "")
notReturned == Error("none", "")

\* the test of the Init loop is left out
initFailedNever(err) == FALSE

\* err != nil after proc.Init
initFailed(err) == err # "nil"

\* the loop leaves one result unreceived
exitDoneEarly(ctr) == ctr <= 1

\* ctr == 0 after a receive in countExit
exitDone(ctr) == ctr = 0

\* run goes on to the shutdown without the select
phaseAfterStartShutdown == "stop"

\* the select that waits for a signal or an exit follows the Start loop
phaseAfterStart == "wait"

\* run has not been called; funcs holds the runFunc goroutines
noRunner ==
    [pc |-> "idle", procs |-> <<>>, i |-> 0, registered |-> <<>>,
     parsed |-> FALSE, inits |-> <<>>, sigc |-> <<>>, delivered |-> 0,
     ctx |-> "none", stopCtx |-> "none", startc |-> "none", stopc |-> "none",
     startWatch |-> "none", stopWatch |-> "none", funcs |-> {}, ctr |-> 0,
     errs |-> 0, result |-> notReturned, trigger |-> "none",
     forced |-> FALSE, failed |-> FALSE, initErr |-> 0]

VARIABLES
    handlers,   \* the handler objects of the lineage, in allocation order
    heap,       \* the *state objects, in allocation order
    arrays,     \* per state object, the backing arrays it refers to
    pool,       \* sync.Pool: a bag of buffers [data, cap]
    fin,        \* buffers captured by finalizers of unreachable states
    pc,         \* position of every goroutine inside Handle
    loc,        \* locals of every goroutine inside Handle
    mu,         \* holder of the shared mutex, 0 when free
    sink,       \* the writer: chunks written, tagged with the writing call
    calls,      \* one entry per started Handle / Log call
    ret,        \* source and result of the derivation that returned last
    panicked,   \* a goroutine hit a slice bounds panic
    config,     \* envflag.Config: the flag set, and what Parse was given
    runner      \* Options.Run / run: position, channels, contexts, goroutines

vars ==
    <<handlers, heap, arrays, pool, fin, pc, loc, mu, sink, calls, ret,
      panicked, config, runner>>

\* ------------------------------------------------------------------------
\* sync.Pool
\* ------------------------------------------------------------------------
newBuf == [data |-> <<>>, cap |-> stateBufferSize]       \* pool.New

\* The identity of a backing array: the allocation that made it. A pooled
\* buffer keeps the identity it was put with.
noArray == <<"nil", 0>>
madeBy(site, n) == <<site, n>>

\* the slice header b over the backing array id
over(b, id) == [data |-> b.data, cap |-> b.cap, id |-> id]

\* pool.Get: any pooled buffer, or a new one
poolGetChoices ==
    {[buf |-> b, pooled |-> TRUE] : b \in BagToSet(pool)}
        \cup {[buf |-> newBuf, pooled |-> FALSE]}

\* the buffer handed out stays in the pool
poolAfterGetKept(c) == pool

poolAfterGet(c) == IF c.pooled THEN pool (-) SetToBag({c.buf}) ELSE pool

\* pool.Put: the pool keeps the buffer or drops it
poolPut(p, b) ==
    IF BagCardinality(p) < MaxPool THEN p (+) SetToBag({b}) ELSE p

\* ------------------------------------------------------------------------
\* state.clone
\* ------------------------------------------------------------------------
cloneUsesPool(s) == ~(s.cap > stateBufferSize)

\* buf = buf[:len(h.buf)] panics when the pooled buffer is too small
clonePanics(s, b) == cloneUsesPool(s) /\ b.cap < BLen(s.buf)

clone(s, b) ==
    [confirmedLast |-> s.confirmedLast,
     groupOpenIdx |-> s.groupOpenIdx,
     separator |-> s.separator,
     buf |-> s.buf,
     cap |-> IF cloneUsesPool(s) THEN b.cap ELSE BLen(s.buf)]

\* the slice the finalizer of the clone puts into the pool
finalizerBuf(s, b) ==
    [data |-> s.buf, cap |-> IF cloneUsesPool(s) THEN b.cap ELSE BLen(s.buf)]

\* no new object: the clone is the state of the handler itself
cloneTargetShared(h) == handlers[h].state

\* s := &state{...}: the clone is a new object
cloneTarget(h) == Len(heap) + 1

heapStore(hp, id, st) ==
    IF id > Len(hp) THEN Append(hp, st) ELSE [hp EXCEPT ![id] = st]

\* ------------------------------------------------------------------------
\* handler
\* ------------------------------------------------------------------------
\* the comparison the wrong way round
EnabledInverted(h, l) == l <= handlers[h].minLevel

Enabled(h, l) == l >= handlers[h].minLevel

noBuf == [data |-> <<>>, cap |-> 0]                      \* var buf []byte

idleLoc == [h |-> 0, rec |-> Record(0, FALSE, FALSE, "", <<>>), state |-> 0,
            buf |-> noBuf, fbuf |-> noBuf, call |-> 0, err |-> "nil"]

Op(o, n, as) == [op |-> o, n |-> n, as |-> as]

\* New(level, out)
New(level) ==
    /\ handlers = <<[minLevel |-> level, state |-> 1, mu |-> 1,
                      lineage |-> <<>>, born |-> newState]>>
    /\ heap = <<newState>>
    /\ arrays = <<[orig |-> noArray, cur |-> noArray]>>
    /\ pool = EmptyBag
    /\ fin = EmptyBag
    /\ pc = [g \in Procs |-> "idle"]
    /\ loc = [g \in Procs |-> idleLoc]
    /\ mu = [m \in {1} |-> 0]
    /\ sink = <<>>
    /\ calls = <<>>
    /\ ret = [op |-> "New", empty |-> FALSE, src |-> 0, dst |-> 1, gets |-> 0,
              allocs |-> 1]
    /\ panicked = FALSE
    /\ config = NewConfig
    /\ runner = noRunner

Init == New(LevelInfo)

\* no derivation has returned since the last record was logged
noRet == [op |-> "none", empty |-> FALSE, src |-> 0, dst |-> 0, gets |-> 0,
          allocs |-> 0, evals |-> <<>>]

\* the buffer state.clone works on: a pooled one, or a fresh copy
cloneGets(s) ==
    IF cloneUsesPool(s) THEN poolGetChoices
    ELSE {[buf |-> [data |-> s.buf, cap |-> BLen(s.buf)], pooled |-> FALSE]}

cloneGetCount(s) == IF cloneUsesPool(s) THEN 1 ELSE 0

\* the level is not copied and stays the zero value
handlerCloneZeroLevel(h, sid, op, st) ==
    [minLevel |-> LevelInfo, state |-> sid, mu |-> handlers[h].mu,
     lineage |-> Append(handlers[h].lineage, op), born |-> st]

\* the backing arrays of the state object sid cloned through the Get c and
\* then extended to st: orig is the array the finalizer of the clone holds
\* (the pooled one, or the one clone allocated), cur the array of state.buf,
\* a new one when an append outgrew the capacity base
cloneArrays(sid, c, base, st) ==
    LET orig == IF c.pooled THEN c.buf.id ELSE madeBy("clone", sid)
    IN  [orig |-> orig,
         cur |-> IF st.cap # base THEN madeBy("append", sid) ELSE orig]

\* handler.clone: same level, same mutex, same writer, cloned state
handlerClone(h, sid, op, st) ==
    [minLevel |-> handlers[h].minLevel, state |-> sid, mu |-> handlers[h].mu,
     lineage |-> Append(handlers[h].lineage, op), born |-> st]

Panic ==
    /\ panicked' = TRUE
    /\ UNCHANGED <<runner, config, handlers, heap, arrays, fin, pc, loc, mu, sink, calls, ret>>

\* what a derivation does to the state of the clone: the attributes are
\* folded in, or the group is opened
derived(s, o) ==
    IF o.op = "attrs" THEN attrs(s, o.as) ELSE openGroup(s, o.n)

\* the LogValue calls the derivation makes
derivedCalls(o) == IF o.op = "attrs" THEN attrsCalls(o.as) ELSE <<>>

\* the body shared by WithAttrs and WithGroup once the no-op case is excluded:
\* h2 := h.clone(), then the derivation on h2.state
Derive(h, op, empty, lineageOp) ==
    LET s == heap[handlers[h].state]
    IN  \E c \in cloneGets(s) :
           /\ pool' = poolAfterGet(c)
           /\ IF clonePanics(s, c.buf) THEN Panic
              ELSE LET sid == cloneTarget(h)
                       s2 == derived(clone(s, c.buf), lineageOp)
                   IN  /\ heap' = heapStore(heap, sid, s2)
                       /\ arrays' = heapStore(arrays, sid,
                             cloneArrays(sid, c, clone(s, c.buf).cap, s2))
                       /\ handlers' =
                             Append(handlers,
                                    handlerClone(h, sid, lineageOp, s2))
                       /\ ret' = [op |-> op, empty |-> empty, src |-> h,
                                  dst |-> Len(handlers) + 1,
                                  gets |-> cloneGetCount(s),
                                  allocs |-> Len(heap') - Len(heap),
                                  evals |-> derivedCalls(lineageOp)]
                       /\ UNCHANGED <<runner, config, fin, pc, loc, mu, sink, calls,
                                      panicked>>

\* return h
Return(h, op, empty) ==
    /\ ret' = [op |-> op, empty |-> empty, src |-> h, dst |-> h, gets |-> 0,
               allocs |-> 0, evals |-> <<>>]
    /\ UNCHANGED <<runner, config, handlers, heap, arrays, pool, fin, pc, loc, mu, sink, calls, panicked>>

\* len(attrs) == 0
noAttrs(as) == Len(as) = 0

\* the test for the empty name left out
noNameNever(name) == FALSE

\* name == ""
noName(name) == name = ""

WithAttrs(h, as) ==
    /\ ~panicked
    /\ h \in 1..Len(handlers)
    /\ IF noAttrs(as) THEN Return(h, "WithAttrs", as = <<>>)
       ELSE Derive(h, "WithAttrs", as = <<>>, Op("attrs", "", as))

WithGroup(h, name) ==
    /\ ~panicked
    /\ h \in 1..Len(handlers)
    /\ IF noName(name) THEN Return(h, "WithGroup", name = "")
       ELSE Derive(h, "WithGroup", name = "", Op("group", name, <<>>))

\* ------------------------------------------------------------------------
\* handler.Handle, one action per access to shared memory
\* ------------------------------------------------------------------------
traceID == "5b8aa5a2d2c872e8321cf37308d69df2"
spanID == "051581bf3cb55c13"
timeText == "2023-10-16T06:04:02.123456789Z"

\* slog.Level.String
levelText(l) == IF l = LevelDebug THEN "DEBUG" ELSE "INFO"

\* x stands for the value of b, so that b is evaluated once
bufAppend(b, toks) ==
    CHOOSE r \in {[data |-> x.data \o toks,
                   cap |-> growCap(x.cap, BLen(x.data) + BLen(toks))] :
                     x \in {b}} : TRUE

\* the appends of Handle onto the render buffer b, frag being state.buf
render(b, rec, frag) ==
    LET b1 == bufAppend(b, <<P("{")>>)
        b2 == IF rec.time
              THEN bufAppend(bufAppend(bufAppend(b1, <<Str("time"), P(":")>>),
                                       jsonString(timeText)), <<P(",")>>)
              ELSE b1
        b3 == bufAppend(bufAppend(b2, <<Str("level"), P(":")>>),
                        jsonString(levelText(rec.level)))
        b4 == IF rec.trace
              THEN bufAppend(bufAppend(bufAppend(
                       b3, <<P(","), Str("trace_id"), P(":")>>),
                       <<Str(traceID), P(",")>>),
                       <<Str("span_id"), P(":"), Str(spanID)>>)
              ELSE b3
        b5 == bufAppend(bufAppend(b4, <<P(","), Str("message"), P(":")>>),
                        jsonString(rec.message))
        b6 == IF Len(frag) > 0
              THEN bufAppend(bufAppend(b5, <<P(",")>>), frag)
              ELSE b5
    IN  bufAppend(b6, <<P("}"), NL>>)

\* the groups are left open
callStateOpen(s, rec) == attrs(s, rec.attrs)

\* the LogValue calls of r.Attrs(func(a) { state.attr(a) })
callCalls(rec) == attrsCalls(rec.attrs)

\* r.Attrs(func(a) { state.attr(a) }); state.closeAll() on the clone s
callState(s, rec) == closeAll(attrs(s, rec.attrs))

\* a new call runs on the first idle goroutine
FirstIdle(g) == pc[g] = "idle" /\ \A k \in Procs : k < g => pc[k] # "idle"

newCall(h, rec, via, status, gets, frag) ==
    [h |-> h, rec |-> rec, via |-> via, status |-> status, gets |-> gets,
     frag |-> frag, pre |-> <<>>, line |-> <<>>, writes |-> 0,
     sinkErr |-> "nil", err |-> "nil", pending |-> FALSE,
     evals |-> IF status = "running" THEN callCalls(rec) ELSE <<>>]

\* state := h.state.clone(); r.Attrs(state.attr); state.closeAll()
HandleBegin(g, h, rec, via) ==
    LET s == heap[handlers[h].state]
    IN  /\ ~panicked
        /\ FirstIdle(g)
        /\ h \in 1..Len(handlers)
        /\ \E c \in cloneGets(s) :
              /\ pool' = poolAfterGet(c)
              /\ IF clonePanics(s, c.buf) THEN Panic
                 ELSE LET sid == cloneTarget(h)
                          st == callState(clone(s, c.buf), rec)
                          ar == cloneArrays(sid, c, clone(s, c.buf).cap, st)
                      IN  /\ heap' = heapStore(heap, sid, st)
                          /\ arrays' = heapStore(arrays, sid, ar)
                          /\ loc' = [loc EXCEPT ![g] =
                                [h |-> h, rec |-> rec, state |-> sid,
                                 buf |-> noBuf,
                                 fbuf |-> over(finalizerBuf(s, c.buf),
                                               ar.orig),
                                 call |-> Len(calls) + 1, err |-> "nil"]]
                          /\ calls' = Append(calls,
                                newCall(h, rec, via, "running",
                                        cloneGetCount(s), st.buf))
                          /\ pc' = [pc EXCEPT ![g] = "render"]
                          /\ ret' = noRet
                          /\ UNCHANGED <<runner, config, handlers, fin, mu, sink,
                                         panicked>>

Handle(g, h, rec) == HandleBegin(g, h, rec, "direct")

\* slog.Logger.Log: the handler is called only when it is enabled
Log(g, h, rec) ==
    /\ ~panicked
    /\ FirstIdle(g)
    /\ h \in 1..Len(handlers)
    /\ IF Enabled(h, rec.level) THEN HandleBegin(g, h, rec, "logger")
       ELSE /\ calls' = Append(calls,
                     newCall(h, rec, "logger", "skipped", 0, <<>>))
            /\ ret' = noRet
            /\ UNCHANGED <<runner, config, handlers, heap, arrays, pool, fin, pc, loc, mu, sink,
                           panicked>>

\* the render buffer is acquired and the whole line is formatted; the clone
\* of the state is unreachable afterwards and its finalizer may run
HandleRender(g) ==
    LET l == loc[g]
        st == heap[l.state]
        need == renderHeadroom + NameLen(l.rec.message)
        fresh == st.cap - BLen(st.buf) < need
        gets == IF fresh
                THEN {[buf |-> [data |-> <<>>, cap |-> BLen(st.buf) + need],
                       pooled |-> FALSE]}
                ELSE poolGetChoices
    IN  /\ ~panicked
        /\ pc[g] = "render"
        /\ \E c \in gets :
              LET b == render(c.buf, l.rec, st.buf)
                  id == IF c.pooled /\ b.cap = c.buf.cap THEN c.buf.id
                        ELSE madeBy("render", l.call)
              IN  /\ pool' = poolAfterGet(c)
                  /\ loc' = [loc EXCEPT ![g].buf = over(b, id)]
                  /\ calls' = [calls EXCEPT
                        ![l.call].status = "rendered",
                        ![l.call].pre = c.buf.data,
                        ![l.call].line = b.data,
                        ![l.call].gets = @ + (IF fresh THEN 0 ELSE 1)]
        /\ fin' = fin (+) SetToBag({[buf |-> l.fbuf, call |-> l.call]})
        /\ pc' = [pc EXCEPT ![g] = "lock"]
        /\ UNCHANGED <<runner, config, handlers, heap, arrays, mu, sink, ret, panicked>>

\* h.mu.Lock()
HandleLock(g) ==
    /\ ~panicked
    /\ pc[g] = "lock"
    /\ mu[handlers[loc[g].h].mu] = 0
    /\ mu' = [mu EXCEPT ![handlers[loc[g].h].mu] = g]
    /\ pc' = [pc EXCEPT ![g] = "write"]
    /\ UNCHANGED <<runner, config, handlers, heap, arrays, pool, fin, loc, sink, calls, ret, panicked>>

\* h.w.Write(buf): the writer takes the bytes in two pieces
HandleWrite(g) ==
    LET b == loc[g].buf.data
    IN  /\ ~panicked
        /\ pc[g] = "write"
        /\ sink' = Append(sink, [call |-> loc[g].call,
                                 bytes |-> SubSeq(b, 1, Len(b) - 1)])
        /\ calls' = [calls EXCEPT ![loc[g].call].writes = @ + 1]
        /\ pc' = [pc EXCEPT ![g] = "write2"]
        /\ UNCHANGED <<runner, config, handlers, heap, arrays, pool, fin, loc, mu, ret, panicked>>

HandleWrite2(g) ==
    LET b == loc[g].buf.data
    IN  /\ ~panicked
        /\ pc[g] = "write2"
        /\ sink' = Append(sink, [call |-> loc[g].call,
                                 bytes |-> SubSeq(b, Len(b), Len(b))])
        /\ calls' = [calls EXCEPT ![loc[g].call].status = "written"]
        /\ pc' = [pc EXCEPT ![g] = "unlock"]
        /\ UNCHANGED <<runner, config, handlers, heap, arrays, pool, fin, loc, mu, ret, panicked>>

\* the error path leaves Handle without the unlock
HandleWriteFailLocked(g) ==
    /\ ~panicked
    /\ pc[g] \in {"write", "write2"}
    /\ calls' = [calls EXCEPT
          ![loc[g].call].writes = @ + (IF pc[g] = "write" THEN 1 ELSE 0),
          ![loc[g].call].status = "failed",
          ![loc[g].call].sinkErr = "werr"]
    /\ loc' = [loc EXCEPT ![g].err = "werr"]
    /\ pc' = [pc EXCEPT ![g] = "put"]
    /\ UNCHANGED <<runner, config, handlers, heap, arrays, pool, fin, mu, sink, ret, panicked>>

\* h.w.Write(buf) fails, before any byte or after the first piece: err is
\* the error of the writer and the deferred calls run
HandleWriteFail(g) ==
    /\ ~panicked
    /\ pc[g] \in {"write", "write2"}
    /\ calls' = [calls EXCEPT
          ![loc[g].call].writes = @ + (IF pc[g] = "write" THEN 1 ELSE 0),
          ![loc[g].call].status = "failed",
          ![loc[g].call].sinkErr = "werr"]
    /\ loc' = [loc EXCEPT ![g].err = "werr"]
    /\ pc' = [pc EXCEPT ![g] = "unlock"]
    /\ UNCHANGED <<runner, config, handlers, heap, arrays, pool, fin, mu, sink, ret, panicked>>

\* the deferred Unlock is left out
HandleUnlockKept(g) ==
    /\ ~panicked
    /\ pc[g] = "unlock"
    /\ mu' = mu
    /\ pc' = [pc EXCEPT ![g] = "put"]
    /\ UNCHANGED <<runner, config, handlers, heap, arrays, pool, fin, loc, sink, calls, ret, panicked>>

\* the render buffer goes back to the pool before the lock is released
HandleUnlockPuts(g) ==
    /\ ~panicked
    /\ pc[g] = "unlock"
    /\ pool' = poolPut(pool, loc[g].buf)
    /\ mu' = [mu EXCEPT ![handlers[loc[g].h].mu] = 0]
    /\ pc' = [pc EXCEPT ![g] = "put"]
    /\ UNCHANGED <<runner, config, handlers, heap, arrays, fin, loc, sink, calls, ret, panicked>>

\* deferred h.mu.Unlock()
HandleUnlock(g) ==
    /\ ~panicked
    /\ pc[g] = "unlock"
    /\ mu' = [mu EXCEPT ![handlers[loc[g].h].mu] = 0]
    /\ pc' = [pc EXCEPT ![g] = "put"]
    /\ UNCHANGED <<runner, config, handlers, heap, arrays, pool, fin, loc, sink, calls, ret, panicked>>

\* the finalizer of the state cloned by call c has not run yet
finalizerPending(c) == \E b \in BagToSet(fin) : b.call = c

\* Handle returns without the deferred Put
HandlePutDropped(g) ==
    /\ ~panicked
    /\ pc[g] = "put"
    /\ pool' = pool
    /\ calls' = [calls EXCEPT
          ![loc[g].call].status = IF loc[g].err = "nil" THEN "done" ELSE "error",
          ![loc[g].call].err = loc[g].err,
          ![loc[g].call].pending = finalizerPending(loc[g].call)]
    /\ loc' = [loc EXCEPT ![g] = idleLoc]
    /\ pc' = [pc EXCEPT ![g] = "idle"]
    /\ UNCHANGED <<runner, config, handlers, heap, arrays, fin, mu, sink, ret, panicked>>

\* deferred pool.Put(&buf), then Handle returns; pending records whether the
\* buffer of the cloned state is still held by its finalizer at that moment
HandlePut(g) ==
    /\ ~panicked
    /\ pc[g] = "put"
    /\ pool' = poolPut(pool, loc[g].buf)
    /\ calls' = [calls EXCEPT
          ![loc[g].call].status = IF loc[g].err = "nil" THEN "done" ELSE "error",
          ![loc[g].call].err = loc[g].err,
          ![loc[g].call].pending = finalizerPending(loc[g].call)]
    /\ loc' = [loc EXCEPT ![g] = idleLoc]
    /\ pc' = [pc EXCEPT ![g] = "idle"]
    /\ UNCHANGED <<runner, config, handlers, heap, arrays, fin, mu, sink, ret, panicked>>

\* the finalizer of an unreachable state: pool.Put(&buf)
Finalize ==
    /\ ~panicked
    /\ \E b \in BagToSet(fin) :
          /\ fin' = fin (-) SetToBag({b})
          /\ pool' = poolPut(pool, b.buf)
    /\ UNCHANGED <<runner, config, handlers, heap, arrays, pc, loc, mu, sink, calls, ret, panicked>>

\* ------------------------------------------------------------------------
\* envflag.Config
\* ------------------------------------------------------------------------
\* c.StringVar(...) / c.IntVar(...) before Parse
Register(f) ==
    /\ ~config.parsed
    /\ \A x \in config.flags : x.name # f.name
    /\ config' = [config EXCEPT !.flags = @ \cup {f}]
    /\ UNCHANGED <<runner, handlers, heap, arrays, pool, fin, pc, loc, mu,
                   sink, calls, ret, panicked>>

\* Config.Parse(args, env)
Parse(args, env) ==
    LET e == setFromEnv(config.flags, mapEnv(env, {}))
        a == parseArgs(e.flags, args)
    IN  /\ ~config.parsed
        /\ config' =
              IF e.errs # {}
              THEN [flags |-> e.flags, parsed |-> TRUE, args |-> args,
                    env |-> env, err |-> "env"]
              ELSE [flags |-> a.flags, parsed |-> TRUE, args |-> args,
                    env |-> env, err |-> IF a.ok THEN "nil" ELSE "arg"]
        /\ UNCHANGED <<runner, handlers, heap, arrays, pool, fin, pc, loc,
                       mu, sink, calls, ret, panicked>>

\* ------------------------------------------------------------------------
\* svcrunner: Options.Run, run, runFunc, cancelOnSignal
\* ------------------------------------------------------------------------
logVars ==
    <<config, handlers, heap, arrays, pool, fin, pc, loc, mu, sink, calls, ret,
      panicked>>

\* return err from run: the deferred cancel calls run
returned(r, err) ==
    [r EXCEPT !.pc = "done", !.result = err, !.ctx = "cancelled",
              !.stopCtx = IF @ = "none" THEN "none" ELSE "cancelled"]

\* for _, proc := range procs: the next process, or the code after the loop
loopNext(r, after) ==
    IF r.i < Len(r.procs) THEN [r EXCEPT !.i = @ + 1] ELSE after

\* Options.Run(procs...), and run up to the Register loop: the context, the
\* signal channel, the goroutine that cancels on a signal during startup,
\* t.register(conf)
Run(procs) ==
    /\ runner.pc = "idle"
    /\ runner' =
          IF Len(procs) = 0
          THEN [runner EXCEPT !.pc = "done",
                              !.result = Error("no processes configured", "")]
          ELSE [runner EXCEPT !.pc = "register", !.procs = named(procs),
                              !.i = 1, !.ctx = "live", !.startc = "open",
                              !.startWatch = "waiting",
                              !.registered = <<0>>]
    /\ UNCHANGED logVars

\* one round of the Register loop
RunRegister ==
    LET r == runner
        r1 == IF r.procs[r.i].Register
              THEN [r EXCEPT !.registered = Append(@, r.i)]
              ELSE r
    IN  /\ r.pc = "register"
        /\ runner' = loopNext(r1, [r1 EXCEPT !.pc = "parse"])
        /\ UNCHANGED logVars

\* conf.Parse and t.init, with the errors they return
RunParse(perr, terr) ==
    LET r == [runner EXCEPT !.parsed = TRUE]
    IN  /\ runner.pc = "parse"
        /\ runner' =
              IF perr = "help" THEN returned(r, nil)
              ELSE IF perr # "nil" THEN returned(r, Error("parse config", ""))
              ELSE IF terr # "nil" THEN returned(r, Error("init tools", ""))
              ELSE [r EXCEPT !.pc = "init", !.i = 1]
        /\ UNCHANGED logVars

\* one round of the Init loop; err is what proc.Init returns, and initErr
\* records the process whose Init returned an error
RunInit(err) ==
    LET r == runner
        p == r.procs[r.i]
        after == [r EXCEPT !.pc = "start", !.i = 1]
    IN  /\ r.pc = "init"
        /\ ~p.Init => err = "nil"
        /\ runner' =
              IF ~p.Init THEN loopNext(r, after)
              ELSE LET r1 == [r EXCEPT !.inits = Append(@, r.i),
                                       !.initErr = IF err # "nil" THEN r.i
                                                   ELSE @]
                   IN  IF initFailed(err)
                       THEN returned(r1, Error("init process", p.Name))
                       ELSE loopNext(r1, [r1 EXCEPT !.pc = "start", !.i = 1])
        /\ UNCHANGED logVars

\* go runFunc(ctx, t, fn, name, phase, errc), counted in ctr
launch(r, phase) ==
    [r EXCEPT !.ctr = @ + 1,
              !.funcs = @ \cup {[proc |-> r.i, phase |-> phase,
                                 st |-> "running", err |-> "nil"]}]

\* one round of the Start loop; close(startc) after the last
RunStart ==
    LET r == runner
        r1 == IF r.procs[r.i].Start THEN launch(r, "run") ELSE r
    IN  /\ r.pc = "start"
        /\ runner' = loopNext(r1, [r1 EXCEPT !.pc = phaseAfterStart, !.i = 1,
                                             !.startc = "closed"])
        /\ UNCHANGED logVars

\* the shutdown context and the goroutine that cancels it on a signal
shutdown(r) ==
    [r EXCEPT !.pc = "stop", !.i = 1, !.stopCtx = "live", !.stopc = "open",
              !.stopWatch = "waiting"]

\* case sig := <-sigc of the first select
WaitSignal ==
    /\ runner.pc = "wait"
    /\ runner.sigc # <<>>
    /\ runner' = shutdown([runner EXCEPT !.sigc = Tail(@),
                                         !.ctx = "cancelled",
                                         !.trigger = "signal"])
    /\ UNCHANGED logVars

\* the result f, received from errc: counted off, its error kept; the
\* goroutine that sent it ends
receive(r, f) ==
    [r EXCEPT !.funcs = @ \ {f},
              !.ctr = @ - 1,
              !.errs = @ + (IF f.err # "nil" THEN 1 ELSE 0)]

\* case pe := <-errc of the first select
WaitExit(f) ==
    /\ runner.pc = "wait"
    /\ f \in runner.funcs /\ f.st = "sending"
    /\ runner' = shutdown([receive(runner, f) EXCEPT !.trigger = "exit"])
    /\ UNCHANGED logVars

\* one round of the Stop loop
RunStop ==
    LET r == runner
        r1 == IF r.procs[r.i].Stop THEN launch(r, "stop") ELSE r
    IN  /\ r.pc = "stop"
        /\ runner' = loopNext(r1, [r1 EXCEPT !.pc = "countExit"])
        /\ UNCHANGED logVars

\* a signal taken from sigc; forced records that it had arrived while run
\* was in countExit
taken(r) ==
    [r EXCEPT !.sigc = Tail(@),
              !.forced = @ \/ Head(r.sigc) = "shutdown"]

\* case sig := <-sigc of countExit: a log line
CountSignal ==
    /\ runner.pc = "countExit"
    /\ runner.sigc # <<>>
    /\ runner' = taken(runner)
    /\ UNCHANGED logVars

\* case pe := <-errc of countExit; after the last one close(stopc) and return
CountExit(f) ==
    LET r == receive(runner, f)
    IN  /\ runner.pc = "countExit"
        /\ f \in runner.funcs /\ f.st = "sending"
        /\ runner' =
              IF exitDone(r.ctr)
              THEN returned([r EXCEPT !.stopc = "closed"],
                            IF r.errs > 0 THEN Error("errors during run", "")
                            ELSE nil)
              ELSE r
        /\ UNCHANGED logVars

\* runFunc: fn(ctx, t) returns err; the goroutine then sends on errc;
\* failed records that some function returned an error
FuncReturn(f, err) ==
    /\ f \in runner.funcs /\ f.st = "running"
    /\ runner' = [runner EXCEPT
          !.funcs = (@ \ {f}) \cup {[f EXCEPT !.st = "sending", !.err = err]},
          !.failed = @ \/ err # "nil"]
    /\ UNCHANGED logVars

\* SIGINT or SIGTERM: signal.Notify sends without blocking
Signal ==
    /\ runner.pc \notin {"idle", "done"}
    /\ runner.delivered < MaxSignals
    /\ runner' = [runner EXCEPT
          !.delivered = @ + 1,
          !.sigc = IF Len(@) < sigcCap
                   THEN Append(@, IF runner.pc = "countExit" THEN "shutdown"
                                  ELSE "earlier")
                   ELSE @]
    /\ UNCHANGED logVars

\* cancelOnSignal(ctx, sigc, startc, cancel)
StartWatchSignal ==
    /\ runner.startWatch = "waiting"
    /\ runner.sigc # <<>>
    /\ runner' = [taken(runner) EXCEPT !.ctx = "cancelled",
                                       !.startWatch = "done"]
    /\ UNCHANGED logVars

StartWatchStop ==
    /\ runner.startWatch = "waiting"
    /\ runner.startc = "closed" \/ runner.ctx = "cancelled"
    /\ runner' = [runner EXCEPT !.startWatch = "done"]
    /\ UNCHANGED logVars

\* cancelOnSignal(ctx, sigc, stopc, cancel) of the shutdown
StopWatchSignal ==
    /\ runner.stopWatch = "waiting"
    /\ runner.sigc # <<>>
    /\ runner' = [taken(runner) EXCEPT !.stopCtx = "cancelled",
                                       !.stopWatch = "done"]
    /\ UNCHANGED logVars

StopWatchStop ==
    /\ runner.stopWatch = "waiting"
    /\ runner.stopc = "closed" \/ runner.stopCtx = "cancelled"
    /\ runner' = [runner EXCEPT !.stopWatch = "done"]
    /\ UNCHANGED logVars

Errs == {"nil", "err"}

NextRun ==
    \/ \E procs \in ProcLists : Run(procs)
    \/ RunRegister
    \/ \E perr \in {"nil", "help", "err"}, terr \in Errs : RunParse(perr, terr)
    \/ \E err \in Errs : RunInit(err)
    \/ RunStart
    \/ WaitSignal
    \/ \E f \in runner.funcs : WaitExit(f)
    \/ RunStop
    \/ CountSignal
    \/ \E f \in runner.funcs : CountExit(f)
    \/ \E f \in runner.funcs, err \in Errs : FuncReturn(f, err)
    \/ Signal
    \/ StartWatchSignal
    \/ StartWatchStop
    \/ StopWatchSignal
    \/ StopWatchStop

SpecRun == Init /\ [][NextRun]_vars

\* every goroutine is scheduled, and every launched Start and Stop function
\* returns
FairRun ==
    /\ WF_vars(RunRegister)
    /\ WF_vars(\E perr \in {"nil", "help", "err"}, terr \in Errs :
                  RunParse(perr, terr))
    /\ WF_vars(\E err \in Errs : RunInit(err))
    /\ WF_vars(RunStart)
    /\ WF_vars(WaitSignal \/ \E f \in runner.funcs : WaitExit(f))
    /\ WF_vars(RunStop)
    /\ WF_vars(CountSignal \/ \E f \in runner.funcs : CountExit(f))
    /\ WF_vars(\E f \in runner.funcs, err \in Errs : FuncReturn(f, err))
    /\ WF_vars(StartWatchStop)
    /\ WF_vars(StopWatchStop)

SpecRunLive == Init /\ [][NextRun]_vars /\ FairRun

NextFlag ==
    \/ \E f \in FlagDefs : Register(f)
    \/ \E args \in ArgLists, env \in EnvLists : Parse(args, env)

SpecFlag == Init /\ [][NextFlag]_vars

Next ==
    \/ \E h \in 1..MaxHandlers, n \in GroupNames :
          Len(handlers) < MaxHandlers /\ WithGroup(h, n)
    \/ \E g \in Procs, h \in 1..MaxHandlers, rec \in HandleRecords :
          Len(calls) < MaxCalls /\ Handle(g, h, rec)
    \/ \E g \in Procs : HandleRender(g)
    \/ \E g \in Procs : HandleLock(g)
    \/ \E g \in Procs : HandleWrite(g)
    \/ \E g \in Procs : HandleWrite2(g)
    \/ \E g \in Procs : HandleUnlock(g)
    \/ \E g \in Procs : HandlePut(g)
    \/ Finalize

Spec == Init /\ [][Next]_vars

\* one goroutine building a chain of handlers and then logging through the
\* newest one (as FuzzHandler does), with a richer set of attributes, levels
\* and names; derivations that return the receiver may follow a call; no
\* garbage collection completes during the run
Newest == Len(handlers)

NextFold ==
    \/ \E as \in FoldDerive :
          /\ pc[1] = "idle"
          /\ as = <<>> \/ (calls = <<>> /\ Len(handlers) < FoldHandlers)
          /\ WithAttrs(Newest, as)
    \/ \E n \in FoldNames :
          /\ pc[1] = "idle"
          /\ n = "" \/ (calls = <<>> /\ Len(handlers) < FoldHandlers)
          /\ WithGroup(Newest, n)
    \/ \E rec \in FoldRecords :
          Len(calls) < FoldCalls /\ Handle(1, Newest, rec)
    \/ \E rec \in LogRecords :
          Len(calls) < FoldCalls /\ Log(1, Newest, rec)
    \/ HandleRender(1)
    \/ HandleLock(1)
    \/ HandleWrite(1)
    \/ HandleWrite2(1)
    \/ HandleUnlock(1)
    \/ HandlePut(1)

SpecFold == Init /\ [][NextFold]_vars

\* two goroutines logging through the newest handler of a chain that is being
\* extended meanwhile; no garbage collection completes during the run
NextShare ==
    \/ \E n \in GroupNames :
          Len(handlers) < MaxHandlers /\ WithGroup(Newest, n)
    \/ \E g \in Procs, rec \in HandleRecords :
          Len(calls) < MaxCalls /\ Handle(g, Newest, rec)
    \/ \E g \in Procs : HandleRender(g)
    \/ \E g \in Procs : HandleLock(g)
    \/ \E g \in Procs : HandleWrite(g)
    \/ \E g \in Procs : HandleWrite2(g)
    \/ \E g \in Procs : HandleUnlock(g)
    \/ \E g \in Procs : HandlePut(g)

SpecShare == Init /\ [][NextShare]_vars

\* two goroutines logging through the newest handler of a chain built
\* beforehand, on a writer that may fail any Write
NextErr ==
    \/ \E n \in GroupNames :
          calls = <<>> /\ Len(handlers) < MaxHandlers /\ WithGroup(Newest, n)
    \/ \E g \in Procs, rec \in HandleRecords :
          Len(calls) < MaxCalls /\ Handle(g, Newest, rec)
    \/ \E g \in Procs : HandleRender(g)
    \/ \E g \in Procs : HandleLock(g)
    \/ \E g \in Procs : HandleWrite(g)
    \/ \E g \in Procs : HandleWrite2(g)
    \/ \E g \in Procs : HandleWriteFail(g)
    \/ \E g \in Procs : HandleUnlock(g)
    \/ \E g \in Procs : HandlePut(g)

SpecErr == Init /\ [][NextErr]_vars

\* concurrent calls on one lineage whose writer may fail: every goroutine
\* inside Handle is scheduled, every Write returns, with or without an
\* error, and sync.Mutex hands the lock to a goroutine that keeps waiting
NextLive ==
    \/ \E n \in GroupNames :
          calls = <<>> /\ Len(handlers) < MaxHandlers /\ WithGroup(Newest, n)
    \/ \E g \in Procs, rec \in OwnRecords :
          Len(calls) < MaxCalls /\ Handle(g, Newest, rec)
    \/ \E g \in Procs : HandleRender(g)
    \/ \E g \in Procs : HandleLock(g)
    \/ \E g \in Procs : HandleWrite(g)
    \/ \E g \in Procs : HandleWrite2(g)
    \/ \E g \in Procs : HandleWriteFail(g)
    \/ \E g \in Procs : HandleUnlock(g)
    \/ \E g \in Procs : HandlePut(g)

FairLive ==
    \A g \in Procs :
       /\ WF_vars(HandleRender(g))
       /\ SF_vars(HandleLock(g))
       /\ WF_vars(HandleWrite(g) \/ HandleWrite2(g) \/ HandleWriteFail(g))
       /\ WF_vars(HandleUnlock(g))
       /\ WF_vars(HandlePut(g))

SpecLive == Init /\ [][NextLive]_vars /\ FairLive

\* a root made at any level, a chain of handlers derived from it and records
\* of any level logged through the newest handler by one goroutine
InitLevel == \E level \in Levels : New(level)

NextLevel ==
    \/ \E as \in LevelDerive :
          /\ pc[1] = "idle" /\ calls = <<>> /\ Len(handlers) < FoldHandlers
          /\ WithAttrs(Newest, as)
    \/ \E n \in GroupNames :
          /\ pc[1] = "idle" /\ calls = <<>> /\ Len(handlers) < FoldHandlers
          /\ WithGroup(Newest, n)
    \/ \E rec \in LevelRecords :
          Len(calls) < FoldCalls /\ Log(1, Newest, rec)
    \/ HandleRender(1)
    \/ HandleLock(1)
    \/ HandleWrite(1)
    \/ HandleWrite2(1)
    \/ HandleUnlock(1)
    \/ HandlePut(1)

SpecLevel == InitLevel /\ [][NextLevel]_vars

\* two goroutines calling the newest handler of a chain while the finalizers
\* of the states cloned by earlier calls run at any moment
NextOwn ==
    \/ \E as \in PoolDerive :
          /\ calls = <<>> /\ Len(handlers) < MaxHandlers
          /\ WithAttrs(Newest, as)
    \/ \E n \in GroupNames :
          /\ calls = <<>> /\ Len(handlers) < MaxHandlers
          /\ WithGroup(Newest, n)
    \/ \E g \in Procs, rec \in OwnRecords :
          Len(calls) < MaxCalls /\ Handle(g, Newest, rec)
    \/ \E g \in Procs : HandleRender(g)
    \/ \E g \in Procs : HandleLock(g)
    \/ \E g \in Procs : HandleWrite(g)
    \/ \E g \in Procs : HandleWrite2(g)
    \/ \E g \in Procs : HandleUnlock(g)
    \/ \E g \in Procs : HandlePut(g)
    \/ Finalize

SpecOwn == Init /\ [][NextOwn]_vars

\* ------------------------------------------------------------------------
\* The methods of state applied one by one to the state object of the root;
\* ret keeps the method, its argument and the state before the call
\* ------------------------------------------------------------------------
StateCall(op, n, a, s2) ==
    /\ ~panicked
    /\ heap' = [heap EXCEPT ![1] = s2]
    /\ ret' = [op |-> op, n |-> n, a |-> a, pre |-> heap[1]]
    /\ UNCHANGED <<runner, config, handlers, arrays, pool, fin, pc, loc, mu, sink,
                   calls, panicked>>

\* the buffer is extended while it is short
Short == BLen(heap[1].buf) <= MaxStateBytes

StateOpenGroup(n) ==
    Short /\ StateCall("openGroup", n, ZeroAttr, openGroup(heap[1], n))

\* closeGroup indexes the last mark: it is called with a group open
StateCloseGroup ==
    /\ Len(heap[1].groupOpenIdx) > 0
    /\ StateCall("closeGroup", "", ZeroAttr, closeGroup(heap[1]))

StateCloseAll == StateCall("closeAll", "", ZeroAttr, closeAll(heap[1]))

StateAttr(a) == Short /\ StateCall("attr", "", a, attr(heap[1], a))

\* clone into a buffer made by pool.New
StateClone == StateCall("clone", "", ZeroAttr, clone(heap[1], newBuf))

NextState ==
    \/ \E n \in GroupNames : StateOpenGroup(n)
    \/ StateCloseGroup
    \/ StateCloseAll
    \/ \E a \in StateAttrs : StateAttr(a)
    \/ StateClone

SpecState == Init /\ [][NextState]_vars

\* a chain of groups and attributes, then records handled by the newest
\* handler of the chain
NextClose ==
    \/ \E as \in CloseDerive :
          /\ pc[1] = "idle" /\ calls = <<>> /\ Len(handlers) < FoldHandlers
          /\ WithAttrs(Newest, as)
    \/ \E n \in CloseNames :
          /\ pc[1] = "idle" /\ calls = <<>> /\ Len(handlers) < FoldHandlers
          /\ WithGroup(Newest, n)
    \/ \E rec \in CloseRecords :
          Len(calls) < FoldCalls /\ Handle(1, Newest, rec)
    \/ HandleRender(1)
    \/ HandleLock(1)
    \/ HandleWrite(1)
    \/ HandleWrite2(1)
    \/ HandleUnlock(1)
    \/ HandlePut(1)

SpecClose == Init /\ [][NextClose]_vars

\* a chain of handlers derived with LogValuer attributes, then records with
\* LogValuer attributes handled by any handler of the chain
NextLazy ==
    \/ \E as \in LazyDerive :
          /\ pc[1] = "idle" /\ calls = <<>> /\ Len(handlers) < FoldHandlers
          /\ WithAttrs(Newest, as)
    \/ \E n \in GroupNames :
          /\ pc[1] = "idle" /\ calls = <<>> /\ Len(handlers) < FoldHandlers
          /\ WithGroup(Newest, n)
    \/ \E h \in 1..Len(handlers), rec \in LazyRecords :
          Len(calls) < FoldCalls /\ Handle(1, h, rec)
    \/ HandleRender(1)
    \/ HandleLock(1)
    \/ HandleWrite(1)
    \/ HandleWrite2(1)
    \/ HandleUnlock(1)
    \/ HandlePut(1)

SpecLazy == Init /\ [][NextLazy]_vars

\* one goroutine: a chain of handlers, then calls on the newest while the
\* finalizers of the states cloned by earlier calls run at any moment
NextRelease ==
    \/ \E as \in PoolDerive :
          /\ pc[1] = "idle" /\ calls = <<>> /\ Len(handlers) < MaxHandlers
          /\ WithAttrs(Newest, as)
    \/ \E n \in GroupNames :
          /\ pc[1] = "idle" /\ calls = <<>> /\ Len(handlers) < MaxHandlers
          /\ WithGroup(Newest, n)
    \/ \E rec \in HandleRecords :
          Len(calls) < MaxCalls /\ Handle(1, Newest, rec)
    \/ HandleRender(1)
    \/ HandleLock(1)
    \/ HandleWrite(1)
    \/ HandleWrite2(1)
    \/ HandleUnlock(1)
    \/ HandlePut(1)
    \/ Finalize

SpecRelease == Init /\ [][NextRelease]_vars

\* one goroutine deriving handlers from any handler of the lineage and
\* logging through any of them, with states and lines that outgrow the
\* standard capacity, while finalizers of unreachable states run
NextPool ==
    \/ \E h \in 1..PoolHandlers, as \in PoolDerive :
          pc[1] = "idle" /\ Len(handlers) < PoolHandlers /\ WithAttrs(h, as)
    \/ \E h \in 1..PoolHandlers, n \in GroupNames :
          pc[1] = "idle" /\ Len(handlers) < PoolHandlers /\ WithGroup(h, n)
    \/ \E h \in 1..PoolHandlers, rec \in PoolRecords :
          Len(calls) < PoolCalls /\ Handle(1, h, rec)
    \/ HandleRender(1)
    \/ HandleLock(1)
    \/ HandleWrite(1)
    \/ HandleWrite2(1)
    \/ HandleUnlock(1)
    \/ HandlePut(1)
    \/ Finalize

SpecPool == Init /\ [][NextPool]_vars

\* ------------------------------------------------------------------------
\* Type correctness
\* ------------------------------------------------------------------------
TypeOK ==
    /\ Len(handlers) >= 1
    /\ \A i \in 1..Len(handlers) : handlers[i].state \in 1..Len(heap)
    /\ \A g \in Procs : pc[g] \in {"idle", "render", "lock", "write", "write2",
                                    "unlock", "put"}
    /\ BagCardinality(pool) <= MaxPool

\* ------------------------------------------------------------------------
\* Reading the sink
\* ------------------------------------------------------------------------
RECURSIVE concatChunks(_)
concatChunks(cs) ==
    IF cs = <<>> THEN <<>> ELSE Head(cs).bytes \o concatChunks(Tail(cs))

\* every byte written so far, in the order the writer received it
SinkBytes == concatChunks(sink)

\* the bytes the writer received from call c
WrittenBytes(c) == concatChunks(SelectSeq(sink, LAMBDA ch : ch.call = c))

\* the complete lines of b, without their newline
RECURSIVE splitLines(_, _)
splitLines(b, cur) ==
    IF b = <<>> THEN <<>>
    ELSE IF Head(b) = NL THEN <<cur>> \o splitLines(Tail(b), <<>>)
    ELSE splitLines(Tail(b), Append(cur, Head(b)))

SinkLines == splitLines(SinkBytes, <<>>)

\* a JSON object: '{' [ string ':' value { ',' string ':' value } ] '}'
\* with value a string, a literal or an object
RECURSIVE scan(_, _, _, _)
scan(toks, i, st, d) ==
    IF i > Len(toks) THEN st
    ELSE LET tok == toks[i]
         IN  CASE st = "start" ->
                    IF tok = P("{") THEN scan(toks, i + 1, "first", 1)
                    ELSE "bad"
               [] st = "first" ->
                    IF tok.t = "str" THEN scan(toks, i + 1, "colon", d)
                    ELSE IF tok = P("}")
                    THEN scan(toks, i + 1, IF d = 1 THEN "end" ELSE "after",
                              d - 1)
                    ELSE "bad"
               [] st = "key" ->
                    IF tok.t = "str" THEN scan(toks, i + 1, "colon", d)
                    ELSE "bad"
               [] st = "colon" ->
                    IF tok = P(":") THEN scan(toks, i + 1, "value", d)
                    ELSE "bad"
               [] st = "value" ->
                    IF tok.t \in {"str", "lit"}
                    THEN scan(toks, i + 1, "after", d)
                    ELSE IF tok = P("{") THEN scan(toks, i + 1, "first", d + 1)
                    ELSE "bad"
               [] st = "after" ->
                    IF tok = P(",") THEN scan(toks, i + 1, "key", d)
                    ELSE IF tok = P("}")
                    THEN scan(toks, i + 1, IF d = 1 THEN "end" ELSE "after",
                              d - 1)
                    ELSE "bad"
               [] OTHER -> "bad"

ValidObject(toks) == scan(toks, 1, "start", 0) = "end"

\* the keys of a byte sequence: the strings followed by a colon
KeyPositions(toks) ==
    {i \in 1..(Len(toks) - 1) : toks[i].t = "str" /\ toks[i + 1] = P(":")}

KeysIn(toks) == {toks[i].v : i \in KeyPositions(toks)}

RECURSIVE keySeqFrom(_, _)
keySeqFrom(toks, i) ==
    IF i >= Len(toks) THEN <<>>
    ELSE IF toks[i].t = "str" /\ toks[i + 1] = P(":")
    THEN <<toks[i].v>> \o keySeqFrom(toks, i + 1)
    ELSE keySeqFrom(toks, i + 1)

KeySeq(toks) == keySeqFrom(toks, 1)

\* nesting depth of every key, the outermost object being depth 1
RECURSIVE depthSeqFrom(_, _, _)
depthSeqFrom(toks, i, d) ==
    IF i > Len(toks) THEN <<>>
    ELSE IF toks[i] = P("{") THEN depthSeqFrom(toks, i + 1, d + 1)
    ELSE IF toks[i] = P("}") THEN depthSeqFrom(toks, i + 1, d - 1)
    ELSE IF i < Len(toks) /\ toks[i].t = "str" /\ toks[i + 1] = P(":")
    THEN <<d>> \o depthSeqFrom(toks, i + 1, d)
    ELSE depthSeqFrom(toks, i + 1, d)

FixedKeys == {"time", "level", "trace_id", "span_id", "message"}

\* ------------------------------------------------------------------------
\* What a record is expected to show, from the attributes that were given
\* ------------------------------------------------------------------------
\* the attribute tree of a lineage followed by the attributes of a call:
\* a WithGroup encloses everything that comes after it
RECURSIVE Nest(_, _)
Nest(ops, tail) ==
    IF ops = <<>> THEN tail
    ELSE IF Head(ops).op = "group"
    THEN <<Attr(Head(ops).n, GroupV(Nest(Tail(ops), tail)))>>
    ELSE Head(ops).as \o Nest(Tail(ops), tail)

\* keys and depths of the attributes that are shown: dropped attributes and
\* groups without shown members leave nothing
RECURSIVE Shown(_, _)
Shown(as, d) ==
    IF as = <<>> THEN <<>>
    ELSE LET a == Head(as)
             val == Resolve(a.value)
             inner == Shown(val.g, IF a.key # "" THEN d + 1 ELSE d)
             this ==
                IF a = ZeroAttr THEN <<>>
                ELSE IF val.kind = "group"
                THEN IF inner = <<>> THEN <<>>
                     ELSE IF a.key # "" THEN <<[k |-> a.key, d |-> d]>> \o inner
                     ELSE inner
                ELSE IF a.key = "" THEN <<>>
                ELSE <<[k |-> a.key, d |-> d]>>
         IN  this \o Shown(Tail(as), d)

\* the attribute list without the groups that show nothing
RECURSIVE Prune(_)
Prune(as) ==
    IF as = <<>> THEN <<>>
    ELSE LET a == Head(as)
             val == Resolve(a.value)
         IN  IF val.kind = "group"
             THEN IF Shown(val.g, 1) = <<>> THEN Prune(Tail(as))
                  ELSE <<Attr(a.key, GroupV(Prune(val.g)))>> \o Prune(Tail(as))
             ELSE <<a>> \o Prune(Tail(as))

CallTree(c) == Nest(handlers[calls[c].h].lineage, calls[c].rec.attrs)

Rendered(c) ==
    calls[c].status \in {"rendered", "written", "failed", "done", "error"}
Written(c) == calls[c].status \in {"written", "done"}

\* the bytes call c appended to its render buffer
OwnLine(c) ==
    SubSeq(calls[c].line, Len(calls[c].pre) + 1, Len(calls[c].line))

Calls == 1..Len(calls)

\* ------------------------------------------------------------------------
\* Claims
\* ------------------------------------------------------------------------

\* C1: every line written to the sink is one syntactically valid JSON
\* object, whatever derivations and attributes preceded it.
C1_EveryLineIsValidJSON ==
    \A i \in 1..Len(SinkLines) : ValidObject(SinkLines[i])

\* C2: the Handle calls that have written leave exactly one complete line
\* each on the sink, the pieces of one line are not separated by bytes of
\* another call, and a line holds only the bytes of its own record.
C2_OneIntactLinePerCall ==
    /\ \A k \in 1..Len(sink) :
          (k % 2 = 1 /\ k < Len(sink)) => sink[k + 1].call = sink[k].call
    /\ \A c \in Calls :
          Written(c) =>
             WrittenBytes(c) = render(noBuf, calls[c].rec, calls[c].frag).data
    /\ Len(SinkLines) = Cardinality({c \in Calls : Written(c)})

BelowLevel(c) == calls[c].rec.level < handlers[calls[c].h].minLevel

NoTraceOfCall(c) ==
    /\ calls[c].gets = 0
    /\ calls[c].status = "skipped"
    /\ \A k \in 1..Len(sink) : sink[k].call # c

\* C3 as stated: a Handle call whose record is below the handler's level
\* writes nothing, takes nothing from the pool and returns no error.
C3_HandleBelowLevelIsNoop ==
    \A c \in Calls : BelowLevel(c) => NoTraceOfCall(c)

\* C3 as amended: a record below the handler's level that is logged through
\* the logger, which asks Enabled before it calls Handle, writes nothing,
\* takes nothing from the pool and returns no error.
C3_LoggerBelowLevelIsNoop ==
    \A c \in Calls :
        (calls[c].via = "logger" /\ BelowLevel(c)) => NoTraceOfCall(c)

C3_Witness ==
    \E c \in Calls : calls[c].via = "logger" /\ BelowLevel(c)
                        /\ calls[c].rec.attrs # <<>>

\* the keys the record of call c is expected to show
ShownKeys(c) == {x.k : x \in {Shown(CallTree(c), 1)[i] :
                                 i \in 1..Len(Shown(CallTree(c), 1))}}

\* the keys of the keyed groups of an attribute list, nested ones included
RECURSIVE GroupKeys(_)
GroupKeys(as) ==
    IF as = <<>> THEN {}
    ELSE LET a == Head(as)
             val == Resolve(a.value)
         IN  (IF val.kind = "group"
              THEN (IF a.key # "" THEN {a.key} ELSE {}) \cup GroupKeys(val.g)
              ELSE {}) \cup GroupKeys(Tail(as))

\* the keys of the groups of call c in which nothing is confirmed
EmptyGroupKeys(c) == GroupKeys(CallTree(c)) \ ShownKeys(c)

\* C4: a group in which no attribute is confirmed, directly or through
\* nested groups, leaves no trace of its key in the line; a handler whose
\* every group is empty emits only the fixed fields.
C4_EmptyGroupLeavesNoTrace ==
    \A c \in Calls :
        Rendered(c) =>
            /\ KeysIn(calls[c].line) \cap EmptyGroupKeys(c) = {}
            /\ (GroupKeys(CallTree(c)) # {} /\ ShownKeys(c) = {}) =>
                  calls[c].line = render(noBuf, calls[c].rec, <<>>).data

\* the attribute fragment Handle computes on handler h for the attributes as
FragmentOf(h, as) == closeAll(attrs(heap[handlers[h].state], as)).buf

\* C5: the rendered attributes equal those of the same attribute list with
\* every group that resolves to no confirmed member removed.
C5_ElisionKeepsNeighbours ==
    \A c \in Calls :
        Rendered(c) =>
            calls[c].frag = FragmentOf(calls[c].h, Prune(calls[c].rec.attrs))

\* the keys of the fixed fields of a record, in the order Handle writes them
fixedKeySeq(rec) ==
    (IF rec.time THEN <<"time">> ELSE <<>>) \o <<"level">>
        \o (IF rec.trace THEN <<"trace_id", "span_id">> ELSE <<>>)
        \o <<"message">>

ShownSeq(c) == Shown(CallTree(c), 1)

\* C6: the attributes and groups of the rendered object appear in the order
\* they were added along the lineage, derivation time attributes first and
\* per call attributes after them, nothing reordered and no repeated key
\* removed.
C6_OrderPreserved ==
    \A c \in Calls :
        Rendered(c) =>
            KeySeq(OwnLine(c)) =
                fixedKeySeq(calls[c].rec)
                    \o [i \in 1..Len(ShownSeq(c)) |-> ShownSeq(c)[i].k]

AttrOps(h) == SelectSeq(handlers[h].lineage, LAMBDA o : o.op = "attrs")
GroupOps(h) == SelectSeq(handlers[h].lineage, LAMBDA o : o.op = "group")

C6_Witness ==
    \E c \in Calls :
        /\ calls[c].status = "done"
        /\ Len(AttrOps(calls[c].h)) > 0
        /\ Len(GroupOps(calls[c].h)) > 0
        /\ calls[c].rec.attrs = <<aA, aA>>

RECURSIVE count(_, _)
count(toks, tok) ==
    IF toks = <<>> THEN 0
    ELSE (IF Head(toks) = tok THEN 1 ELSE 0) + count(Tail(toks), tok)

\* C7: a group opened by WithGroup stays open on the handler and on every
\* handler derived from it, the attributes confirmed afterwards are rendered
\* inside it, successive groups nest in call order, and every open group is
\* closed once when the record is rendered.
C7_WithGroupStaysOpen ==
    /\ \A h \in 1..Len(handlers) :
          Len(heap[handlers[h].state].groupOpenIdx) = Len(GroupOps(h))
    /\ \A c \in Calls :
          Rendered(c) =>
             /\ depthSeqFrom(calls[c].frag, 1, 1) =
                   [i \in 1..Len(ShownSeq(c)) |-> ShownSeq(c)[i].d]
             /\ count(calls[c].frag, P("{")) = count(calls[c].frag, P("}"))
    /\ \A g \in Procs :
          pc[g] # "idle" => heap[loc[g].state].groupOpenIdx = <<>>

C7_Witness ==
    \E c \in Calls :
        /\ calls[c].status = "done"
        /\ Len(GroupOps(calls[c].h)) = 2
        /\ calls[c].rec.attrs = <<gB>>

\* C8: WithAttrs with no attributes and WithGroup with an empty name return
\* the handler they were called on: no handler and no state is allocated and
\* nothing is taken from the pool.
C8_EmptyDerivationReturnsReceiver ==
    ret.empty => (ret.dst = ret.src /\ ret.gets = 0 /\ ret.allocs = 0)

C8_Witness ==
    /\ ret.empty
    /\ ret.op = "WithGroup"
    /\ ret.src > 1
    /\ BagCardinality(pool) > 0

HandlersUnchanged ==
    \A h \in 1..Len(handlers) :
        /\ handlers'[h] = handlers[h]
        /\ heap'[handlers[h].state] = heap[handlers[h].state]

\* C9: no step of a Handle call changes a handler or the state it holds, and
\* two calls on one handler with the same attributes render the same
\* attribute fragment.
C9_HandleLeavesHandlerUnchanged ==
    /\ [][(pc' # pc) => HandlersUnchanged]_vars
    /\ [](\A c, d \in Calls :
            (calls[c].h = calls[d].h /\ calls[c].rec.attrs = calls[d].rec.attrs)
                => calls[c].frag = calls[d].frag)

C9_Witness ==
    /\ Len(calls) = 2
    /\ calls[1].h = 2 /\ calls[2].h = 2
    /\ calls[1].rec.attrs = <<aB>> /\ calls[2].rec.attrs = <<aB>>
    /\ pc[1] = "write2" /\ pc[2] = "lock"

\* the keys that derivations put on a handler
RECURSIVE AllKeys(_)
AllKeys(as) ==
    IF as = <<>> THEN {}
    ELSE LET a == Head(as)
             val == Resolve(a.value)
         IN  (IF a.key # "" THEN {a.key} ELSE {})
                \cup (IF val.kind = "group" THEN AllKeys(val.g) ELSE {})
                \cup AllKeys(Tail(as))

LineageKeys(h) == AllKeys(Nest(handlers[h].lineage, <<>>))

\* the keys accumulated on handlers other than the one call c is made on
ForeignKeys(c) ==
    UNION {LineageKeys(h) : h \in 1..Len(handlers)}
        \ (LineageKeys(calls[c].h) \cup AllKeys(calls[c].rec.attrs))

\* C10: deriving handlers never changes the state of an existing handler,
\* and what one handler accumulated never appears in the output of its
\* parent or of a sibling.
C10_DerivationIsolatesHandlers ==
    /\ \A h \in 1..Len(handlers) : heap[handlers[h].state] = handlers[h].born
    /\ \A c \in Calls :
          Rendered(c) => KeysIn(calls[c].line) \cap ForeignKeys(c) = {}

\* the fixed fields of a record as JSON members, in the order time, level,
\* trace_id, span_id, message
fixedFields(rec) ==
    (IF rec.time THEN <<Str("time"), P(":"), Str(timeText), P(",")>> ELSE <<>>)
        \o <<Str("level"), P(":"), Str(levelText(rec.level))>>
        \o (IF rec.trace
            THEN <<P(","), Str("trace_id"), P(":"), Str(traceID),
                   P(","), Str("span_id"), P(":"), Str(spanID)>>
            ELSE <<>>)
        \o <<P(","), Str("message"), P(":"), Str(rec.message)>>

\* C11: every emitted line is an opening brace, the fixed fields in the
\* order time (if the record has one), level, trace_id, span_id, message,
\* then the attribute fragment preceded by a comma only when it is not
\* empty, then exactly one closing brace and one newline.
C11_FixedFieldOrder ==
    \A c \in Calls :
        Rendered(c) =>
            calls[c].line =
                <<P("{")>> \o fixedFields(calls[c].rec)
                    \o (IF calls[c].frag # <<>>
                        THEN <<P(",")>> \o calls[c].frag ELSE <<>>)
                    \o <<P("}"), NL>>

\* C12: a line holds trace_id and span_id exactly when the context of the
\* call carried a valid span context, and a call without one is written all
\* the same.
C12_TraceFieldsFollowContext ==
    /\ \A c \in Calls :
          Rendered(c) =>
             /\ ("trace_id" \in KeysIn(calls[c].line)) <=> calls[c].rec.trace
             /\ ("span_id" \in KeysIn(calls[c].line)) <=> calls[c].rec.trace
    /\ \A c \in Calls :
          calls[c].status = "done" => WrittenBytes(c) # <<>>

\* the keys of the attributes of a list whose value json.Marshal rejects
RECURSIVE UnencodableKeys(_)
UnencodableKeys(as) ==
    IF as = <<>> THEN {}
    ELSE LET val == Resolve(Head(as).value)
         IN  (IF val.kind = "nan" THEN {Head(as).key}
              ELSE IF val.kind = "group" THEN UnencodableKeys(val.g)
              ELSE {})
                \cup UnencodableKeys(Tail(as))

\* C14: an attribute whose value fails to encode is rendered as "key":null
\* and the line is still a valid JSON object.
C14_EncodeFailureIsNull ==
    \A c \in Calls :
        (Rendered(c) /\ UnencodableKeys(CallTree(c)) # {}) =>
            /\ ValidObject(SubSeq(calls[c].line, 1, Len(calls[c].line) - 1))
            /\ \A i \in KeyPositions(calls[c].line) :
                  calls[c].line[i].v \in UnencodableKeys(CallTree(c)) =>
                     calls[c].line[i + 2] = Lit("null")

Returned(c) == calls[c].status \in {"done", "error"}

\* C13: a Handle call returns the error the writer returned (or none), has
\* called Write once, leaves every handler's state as it was, and holds the
\* lock only while it writes, so a later call on the lineage can lock.
C13_WriteErrorIsReturned ==
    /\ \A c \in Calls :
          Returned(c) => (calls[c].err = calls[c].sinkErr /\ calls[c].writes = 1)
    /\ \A h \in 1..Len(handlers) : heap[handlers[h].state] = handlers[h].born
    /\ \A m \in DOMAIN mu :
          mu[m] # 0 => pc[mu[m]] \in {"write", "write2", "unlock"}

C13_Witness ==
    /\ Len(calls) = 2
    /\ calls[1].h = calls[2].h
    /\ calls[1].status = "error" /\ calls[1].err = "werr"
    /\ calls[2].status = "done" /\ calls[2].writes = 1
    /\ Len(sink) = 3

\* C15: Enabled(level) is level >= minLevel with minLevel the level given to
\* New for the root, on the root and on every handler derived from it; the
\* logger skips exactly the records Enabled rejects.
C15_EnabledIsAtLeastRootLevel ==
    /\ \A h \in 1..Len(handlers), l \in Levels :
          Enabled(h, l) <=> l >= handlers[1].minLevel
    /\ \A c \in Calls :
          calls[c].via = "logger" =>
             (calls[c].status = "skipped"
                <=> calls[c].rec.level < handlers[1].minLevel)

C15_Witness ==
    /\ handlers[1].minLevel = LevelDebug
    /\ Len(handlers) = 3
    /\ \E c \in Calls :
          calls[c].h = 3 /\ calls[c].rec.level = LevelDebug
             /\ calls[c].status = "done"

\* the buffers call c took from the pool that are neither back in the pool
\* nor dropped when it has returned: the buffer of the cloned state, while its
\* finalizer has not run
outstanding(c) ==
    IF cloneUsesPool(heap[handlers[calls[c].h].state]) /\ calls[c].pending
    THEN 1 ELSE 0

\* C18 as stated: when Handle returns, every buffer it took from the pool has
\* been put back or dropped, so that no more buffers are outstanding than
\* before the call.
C18_NoBufferOutstandingAfterHandle ==
    \A c \in Calls : Returned(c) => outstanding(c) = 0

\* C18 as amended: the step on which Handle returns puts the render buffer
\* into the pool and nothing else; the buffer of the cloned state goes back
\* only when the finalizer of that state runs, so that a call that has
\* returned while its finalizer has not run leaves one buffer outstanding, and
\* the buffers held by finalizers are those of calls past their render step.
C18_RenderBufferPutAtReturn ==
    [][/\ \A g \in Procs :
             (pc[g] = "put" /\ pc'[g] = "idle") =>
                /\ pool' = poolPut(pool, loc[g].buf)
                /\ fin' = fin
                /\ calls'[loc[g].call].pending = finalizerPending(loc[g].call)
       /\ \A b \in BagToSet(fin') :
             calls'[b.call].status \notin {"running", "skipped"}
       /\ (fin' # fin /\ pc' = pc) =>
             \E b \in BagToSet(fin) :
                fin' = fin (-) SetToBag({b}) /\ pool' = poolPut(pool, b.buf)
      ]_vars

C18_Witness ==
    \E c \in Calls :
       /\ Returned(c) /\ outstanding(c) = 1 /\ calls[c].gets = 2
       /\ BagCardinality(pool) = 1
       /\ ~finalizerPending(c)

\* the state objects a handler or a call before its render step refers to
LiveStates ==
    {handlers[h].state : h \in 1..Len(handlers)}
       \cup {loc[g].state : g \in {k \in Procs : pc[k] = "render"}}

\* the calls holding a render buffer
Rendering == {g \in Procs : pc[g] \in {"lock", "write", "write2", "unlock", "put"}}

\* who refers to which backing array: <<owner, array>>
Holders ==
    UNION {{<<madeBy("state", sid), arrays[sid].orig>>,
            <<madeBy("state", sid), arrays[sid].cur>>} : sid \in LiveStates}
       \cup {<<madeBy("call", loc[g].call), loc[g].buf.id>> : g \in Rendering}
       \cup {<<madeBy("pool", 0), b.id>> : b \in BagToSet(pool)}
       \cup {<<madeBy("finalizer", b.call), b.buf.id>> : b \in BagToSet(fin)}

\* C19: no backing array is referred to by two owners at once, an owner
\* being a live state, a call holding its render buffer, the pool, or a
\* finalizer waiting to run; the pool holds no array twice. A buffer that
\* was put into the pool is therefore out of reach of the state or call that
\* put it.
C19_BufferOwnershipExclusive ==
    /\ \A x, y \in Holders :
          (x[2] = y[2] /\ x[2] # noArray) => x[1] = y[1]
    /\ \A b, d \in BagToSet(pool) : b.id = d.id => b = d
    /\ \A b \in BagToSet(pool) : CopiesIn(b, pool) = 1

C19_Witness ==
    \E g, k \in Procs :
       /\ pc[g] = "render" /\ k \in Rendering
       /\ arrays[loc[g].state].orig # noArray
       /\ arrays[loc[g].state].orig # madeBy("clone", loc[g].state)
       /\ arrays[loc[g].state].orig # loc[k].buf.id

\* the name of the environment variable of a flag, character by character
ScreamingSnake(name) ==
    [i \in DOMAIN name |->
        CASE name[i] \in {".", "-"} -> "_"
          [] name[i] = "a" -> "A" [] name[i] = "b" -> "B"
          [] name[i] = "n" -> "N" [] OTHER -> name[i]]

\* the position of the first "=" of an environment entry, 0 without one
FirstEq(e) ==
    IF \E j \in DOMAIN e : e[j] = "="
    THEN CHOOSE j \in DOMAIN e :
            e[j] = "=" /\ \A m \in 1..(j - 1) : e[m] # "="
    ELSE 0

Last(S) == CHOOSE i \in S : \A j \in S : j <= i

\* the entries of the environment that name flag f, and the value it gets
EnvGiven(f) ==
    {i \in DOMAIN config.env :
        /\ FirstEq(config.env[i]) > 0
        /\ SubSeq(config.env[i], 1, FirstEq(config.env[i]) - 1)
              = ScreamingSnake(f.name)}
EnvText(f) ==
    LET e == config.env[Last(EnvGiven(f))]
    IN  SubSeq(e, FirstEq(e) + 1, Len(e))

\* the arguments that name flag f, and the value it gets
ArgGiven(f) == {i \in DOMAIN config.args : config.args[i].name = f.name}
ArgText(f) == config.args[Last(ArgGiven(f))].v

Accepted(f, t) ==
    f.kind = "string" \/ (t # <<>> /\ \A i \in DOMAIN t : t[i] \in Digits)
Holds(f, t) ==
    IF f.kind = "string" THEN f.text = t /\ f.num = f.defnum
    ELSE f.num = decimal(t, 0) /\ f.text = f.deftext
AtDefault(f) == f.text = f.deftext /\ f.num = f.defnum
EnvRejected ==
    \E f \in config.flags :
       EnvGiven(f) # {} /\ ~Accepted(f, EnvText(f))

\* C20: after Parse, a flag named on the command line has the command line
\* value, a flag named only in the environment (under its name in upper
\* case with "." and "-" replaced by "_") has the environment value, and any
\* other flag has its default; if an environment value was rejected Parse
\* has returned the environment error and no argument was applied.
C20_EnvThenArgs ==
    config.parsed =>
       /\ (config.err = "env") <=> EnvRejected
       /\ EnvRejected =>
             \A f \in config.flags :
                /\ EnvGiven(f) = {} => AtDefault(f)
                /\ (EnvGiven(f) # {} /\ Accepted(f, EnvText(f)))
                      => Holds(f, EnvText(f))
       /\ config.err = "nil" =>
             \A f \in config.flags :
                IF ArgGiven(f) # {} THEN Holds(f, ArgText(f))
                ELSE IF EnvGiven(f) # {} THEN Holds(f, EnvText(f))
                ELSE AtDefault(f)

C20_Witness ==
    /\ config.parsed /\ config.err = "nil"
    /\ {f.name : f \in config.flags} = {nDot, nDash, nInt}
    /\ \A f \in config.flags :
          /\ f.name = nDash =>
                /\ ArgGiven(f) # {} /\ EnvGiven(f) # {}
                /\ ArgText(f) # EnvText(f) /\ f.text = <<"c">>
          /\ f.name = nDot =>
                ArgGiven(f) = {} /\ EnvGiven(f) # {} /\ f.text = <<"v">>
          /\ f.name = nInt =>
                ArgGiven(f) = {} /\ EnvGiven(f) = {} /\ f.num = 0

\* a keyed group with members none of which is shown: attr opens it and
\* closeGroup rolls it back
Elided(a) ==
    /\ a # ZeroAttr /\ a.key # ""
    /\ Resolve(a.value).kind = "group"
    /\ Len(Resolve(a.value).g) > 0
    /\ Shown(<<a>>, 1) = <<>>

\* C21: when closeGroup rolls back an empty group, the buffer is cut back to
\* the mark and the separator and confirmedLast are what they were before
\* the group was opened.
C21_RollbackRestoresSeparator ==
    (ret.op = "attr" /\ Elided(ret.a)) =>
       /\ heap[1].buf = ret.pre.buf
       /\ heap[1].confirmedLast = ret.pre.confirmedLast
       /\ heap[1].separator = ret.pre.separator

\* C22: closeGroup pops one mark; when confirmedLast is beyond that mark it
\* appends one "}" and moves confirmedLast to the end of the buffer, and
\* otherwise it cuts the buffer back to the mark, which removes the header of
\* the group; nothing else changes.
C22_CloseGroupAppendsOrTruncates ==
    ret.op = "closeGroup" =>
       LET pre == ret.pre
           cur == heap[1]
           n == Len(pre.groupOpenIdx)
           mark == pre.groupOpenIdx[n]
       IN  /\ cur.groupOpenIdx = SubSeq(pre.groupOpenIdx, 1, n - 1)
           /\ cur.separator = pre.separator
           /\ IF pre.confirmedLast > mark
              THEN /\ cur.buf = Append(pre.buf, P("}"))
                   /\ cur.confirmedLast = BLen(cur.buf)
              ELSE /\ BLen(cur.buf) = mark
                   /\ Len(cur.buf) <= Len(pre.buf)
                   /\ cur.buf = SubSeq(pre.buf, 1, Len(cur.buf))
                   /\ cur.confirmedLast = pre.confirmedLast

C22_Witness ==
    /\ ret.op = "closeGroup"
    /\ Len(ret.pre.groupOpenIdx) = 2
    /\ ret.pre.confirmedLast = ret.pre.groupOpenIdx[2]
    /\ ret.pre.confirmedLast > ret.pre.groupOpenIdx[1]
    /\ BLen(heap[1].buf) < BLen(ret.pre.buf)

\* the number of "{" of toks[i..] without its "}", d being the number on the
\* left of i; -1 when a "}" has no "{" on its left
RECURSIVE openBraces(_, _, _)
openBraces(toks, i, d) ==
    IF d < 0 THEN 0 - 1
    ELSE IF i > Len(toks) THEN d
    ELSE IF toks[i] = P("{") THEN openBraces(toks, i + 1, d + 1)
    ELSE IF toks[i] = P("}") THEN openBraces(toks, i + 1, d - 1)
    ELSE openBraces(toks, i + 1, d)

\* the groups a record is expected to show: the shown keys followed by a
\* deeper key
ShownGroups(c) ==
    LET sh == Shown(CallTree(c), 1)
    IN  Cardinality({i \in 1..(Len(sh) - 1) : sh[i + 1].d > sh[i].d})

\* C23: once Handle has folded the attributes of the record into its clone
\* no group is open on the clone; the fragment copied into the line has
\* balanced braces, one "}" for every group that is shown.
C23_NoGroupOpenAtRender ==
    /\ \A g \in Procs :
          pc[g] # "idle" =>
             /\ heap[loc[g].state].groupOpenIdx = <<>>
             /\ openBraces(heap[loc[g].state].buf, 1, 0) = 0
    /\ \A c \in Calls :
          calls[c].status # "skipped" =>
             /\ openBraces(calls[c].frag, 1, 0) = 0
             /\ count(calls[c].frag, P("}")) = ShownGroups(c)

C23_Witness ==
    \E c \in Calls :
       /\ calls[c].status = "done"
       /\ Len(heap[handlers[calls[c].h].state].groupOpenIdx) = 2
       /\ count(calls[c].frag, P("}")) = 2
       /\ calls[c].line # <<>>

\* the handler h was derived from: its lineage without the last step
Parent(h) ==
    CHOOSE p \in 1..Len(handlers) :
       handlers[p].lineage =
          SubSeq(handlers[h].lineage, 1, Len(handlers[h].lineage) - 1)

\* C24: on every handler the number of marks is the number of groups opened
\* by WithGroup along its lineage and the number of "{" of its buffer that
\* have no "}"; a handler derived by WithAttrs has as many marks as the
\* handler it was derived from, whatever groups its attributes held.
C24_MarksCountOpenGroups ==
    \A h \in 1..Len(handlers) :
       LET st == heap[handlers[h].state]
       IN  /\ Len(st.groupOpenIdx) = Len(GroupOps(h))
           /\ Len(st.groupOpenIdx) = openBraces(st.buf, 1, 0)
           /\ (h > 1 /\ handlers[h].lineage[Len(handlers[h].lineage)].op
                           = "attrs")
                 => Len(st.groupOpenIdx)
                       = Len(heap[handlers[Parent(h)].state].groupOpenIdx)

C24_Witness ==
    /\ Len(handlers) = 3
    /\ handlers[3].lineage = <<Op("group", "g", <<>>), Op("attrs", "", <<gB>>)>>
    /\ Len(heap[handlers[3].state].groupOpenIdx) = 1
    /\ count(heap[handlers[3].state].buf, P("{")) = 2

\* C25: the buffer of a state is empty or starts with a quoted key, never
\* with the separator.
C25_NoLeadingSeparator ==
    \A sid \in 1..Len(heap) :
       \/ heap[sid].buf = <<>>
       \/ /\ heap[sid].buf[1].t = "str"
          /\ heap[sid].buf[1] # P(",")

C25_Witness ==
    /\ ret.op = "attr"
    /\ ret.pre.buf = <<>>
    /\ ret.pre.separator = <<>>
    /\ heap[1].buf # <<>>
    /\ heap[1].separator = <<P(",")>>

\* the attributes attr drops: the zero attribute, a value that is no group
\* under an empty key, a group of no members
Dropped(a) ==
    \/ a = ZeroAttr
    \/ Resolve(a.value).kind # "group" /\ a.key = ""
    \/ Resolve(a.value).kind = "group" /\ Len(Resolve(a.value).g) = 0

\* C26: attr leaves the buffer, confirmedLast, groupOpenIdx and the separator
\* as they were when the attribute is one it drops.
C26_DroppedAttrLeavesState ==
    (ret.op = "attr" /\ Dropped(ret.a)) =>
       /\ heap[1].buf = ret.pre.buf
       /\ heap[1].confirmedLast = ret.pre.confirmedLast
       /\ heap[1].groupOpenIdx = ret.pre.groupOpenIdx
       /\ heap[1].separator = ret.pre.separator

C26_Witness ==
    /\ ret.op = "attr"
    /\ ret.a = aE
    /\ ret.pre.separator = <<P(",")>>
    /\ ret.pre.groupOpenIdx # <<>>
    /\ heap[1] = ret.pre

\* the state after the attributes as[i..] were given to attr one by one
RECURSIVE OneByOne(_, _, _)
OneByOne(s, as, i) ==
    IF i > Len(as) THEN s ELSE OneByOne(attr(s, as[i]), as, i + 1)

Inlined(a) ==
    /\ a # ZeroAttr
    /\ a.key = ""
    /\ Resolve(a.value).kind = "group"
    /\ Len(Resolve(a.value).g) > 0

\* C27: attr on a group with an empty key and at least one member pushes no
\* mark and leaves the state that giving the members to attr one by one, in
\* order, leaves.
C27_EmptyKeyGroupInlined ==
    (ret.op = "attr" /\ Inlined(ret.a)) =>
       /\ heap[1] = OneByOne(ret.pre, Resolve(ret.a.value).g, 1)
       /\ heap[1].groupOpenIdx = ret.pre.groupOpenIdx

C27_Witness ==
    /\ ret.op = "attr"
    /\ ret.a = gI2
    /\ ret.pre.groupOpenIdx # <<>>
    /\ heap[1].buf # ret.pre.buf

\* the LogValuers in a value and in a list of attributes, each named once,
\* in the order of the list
RECURSIVE Thunks(_)
RECURSIVE ThunksIn(_)
Thunks(val) ==
    IF val.kind = "lazy" THEN <<val>> \o Thunks(val.inner)
    ELSE IF val.kind = "group" THEN ThunksIn(val.g)
    ELSE <<>>

ThunksIn(as) ==
    IF as = <<>> THEN <<>>
    ELSE Thunks(Head(as).value) \o ThunksIn(Tail(as))

Range(q) == {q[i] : i \in 1..Len(q)}

\* the attributes folded into the state of handler h by its derivations
Folded(h) ==
    LET RECURSIVE all(_)
        all(i) == IF i > Len(handlers[h].lineage) THEN <<>>
                  ELSE handlers[h].lineage[i].as \o all(i + 1)
    IN  all(1)

\* C28: WithAttrs calls LogValue once for every LogValuer among its
\* attributes, and a Handle call calls LogValue once for every LogValuer
\* among the attributes of its record and for no LogValuer folded into the
\* handler by a derivation, whether or not a group was rolled back.
C28_LazyResolvedOnce ==
    /\ (ret.op = "WithAttrs" /\ ~ret.empty) =>
          ret.evals =
             ThunksIn(handlers[ret.dst].lineage[Len(handlers[ret.dst].lineage)].as)
    /\ \A c \in 1..Len(calls) :
          /\ calls[c].evals = ThunksIn(calls[c].rec.attrs)
          /\ Range(calls[c].evals) \cap Range(ThunksIn(Folded(calls[c].h))) = {}

C28_Witness ==
    \E c \in 1..Len(calls) :
       /\ calls[c].status = "done"
       /\ calls[c].rec.attrs = <<aA, gR, aY>>
       /\ calls[c].h > 1
       /\ handlers[calls[c].h].lineage[Len(handlers[calls[c].h].lineage)].op
             = "group"
       /\ Len(ThunksIn(Folded(calls[c].h))) >= 2
       /\ Len(calls[c].evals) = 3

\* C29: state.clone never fails, whatever buffer the pool hands out, and
\* the state a derivation starts from holds the bytes of the state it was
\* cloned from.
C29_CloneAlwaysSucceeds ==
    /\ panicked = FALSE
    /\ \A h \in 2..Len(handlers) :
          LET src == heap[handlers[Parent(h)].state].buf
          IN  /\ Len(handlers[h].born.buf) >= Len(src)
              /\ SubSeq(handlers[h].born.buf, 1, Len(src)) = src

\* goroutine g is between h.mu.Lock() and the deferred h.mu.Unlock()
Locked(g) == pc[g] \in {"write", "write2", "unlock"}

\* where a goroutine stands in Handle and what it holds: the lock is held
\* exactly from Lock to Unlock, the line was complete before Lock, Write is
\* called once under the lock, and the render buffer is outside the pool
\* until the lock is released
LockSpan ==
    \A g \in Procs :
       LET c == loc[g].call
       IN  /\ Locked(g) =>
                /\ mu[handlers[loc[g].h].mu] = g
                /\ calls[c].line = loc[g].buf.data
                /\ calls[c].line[Len(calls[c].line)] = NL
                /\ calls[c].writes = IF pc[g] = "write" THEN 0 ELSE 1
                /\ \A b \in BagToSet(pool) : b.id # loc[g].buf.id
           /\ ~Locked(g) => \A m \in DOMAIN mu : mu[m] # g
           /\ pc[g] = "lock" => calls[c].line[Len(calls[c].line)] = NL
           /\ pc[g] = "put" => calls[c].writes = 1

\* a step of a goroutine that holds the lock touches no attribute state, no
\* handler and no pool
LockedStep ==
    \A g \in Procs :
       (Locked(g) /\ pc'[g] # pc[g]) =>
          /\ heap' = heap
          /\ arrays' = arrays
          /\ handlers' = handlers
          /\ pool' = pool
          /\ fin' = fin

\* C30: Handle takes the lock only when the whole line, newline included, is
\* in the render buffer, calls Write once while it holds the lock, puts the
\* render buffer into the pool only after Write returned and the lock was
\* released, and folds no attribute, clones no state and uses no pool while
\* it holds the lock.
C30_LockOnlyAroundWrite == [](LockSpan) /\ [][LockedStep]_vars

C30_Witness ==
    \E g \in Procs, k \in Procs :
       /\ pc[g] = "unlock" /\ pc[k] = "lock"
       /\ handlers[loc[g].h].mu = handlers[loc[k].h].mu
       /\ mu[handlers[loc[g].h].mu] = g
       /\ calls[loc[g].call].writes = 1
       /\ calls[loc[g].call].sinkErr = "werr"

\* C31: a goroutine that is past the deferred Unlock, or not in Handle, holds
\* no lock, whether Write failed or not, and every goroutine that entered
\* Handle returns from it.
C31_LockReleasedAndCallsReturn ==
    /\ [](\A g \in Procs :
             pc[g] \in {"put", "idle"} => \A m \in DOMAIN mu : mu[m] # g)
    /\ \A g \in Procs : (pc[g] # "idle") ~> (pc[g] = "idle")

C31_Witness ==
    \E g \in Procs, k \in Procs :
       /\ pc[g] = "put"
       /\ calls[loc[g].call].sinkErr = "werr"
       /\ pc[k] = "write"
       /\ handlers[loc[g].h].mu = handlers[loc[k].h].mu
       /\ loc[k].call < loc[g].call

\* C32: the bytes a Handle call passes to Write are one line of its own
\* record: they begin with "{", end with "}" and a newline, hold no other
\* newline, and hold nothing that was in the buffer when the pool handed it
\* out.
C32_LineHoldsOnlyOwnRecord ==
    \A c \in Calls :
       calls[c].line # <<>> =>
          LET line == calls[c].line
              n == Len(line)
          IN  /\ calls[c].pre = <<>>
              /\ line[1] = P("{")
              /\ n >= 2 /\ line[n - 1] = P("}") /\ line[n] = NL
              /\ \A i \in 1..(n - 1) : line[i] # NL
              /\ line = render(noBuf, calls[c].rec, calls[c].frag).data

StateOps == {"openGroup", "closeGroup", "closeAll", "attr", "clone"}

\* C33: in every Attribute State confirmedLast is at most the length of the
\* buffer, the marks are strictly increasing and each at most the length of
\* the buffer; no operation lowers confirmedLast, and closeGroup neither
\* lengthens the buffer when it rolls back nor touches the bytes below
\* confirmedLast.
C33_StateWellFormed ==
    /\ \A sid \in 1..Len(heap) :
          LET s == heap[sid]
          IN  /\ s.confirmedLast <= BLen(s.buf)
              /\ \A i \in 1..Len(s.groupOpenIdx) :
                    /\ s.groupOpenIdx[i] <= BLen(s.buf)
                    /\ i > 1 => s.groupOpenIdx[i - 1] < s.groupOpenIdx[i]
    /\ ret.op \in StateOps => heap[1].confirmedLast >= ret.pre.confirmedLast
    /\ ret.op \in {"closeGroup", "closeAll"} =>
          /\ Take(heap[1].buf, ret.pre.confirmedLast)
                = Take(ret.pre.buf, ret.pre.confirmedLast)
          /\ heap[1].confirmedLast = ret.pre.confirmedLast
                => BLen(heap[1].buf) <= BLen(ret.pre.buf)

C33_Witness ==
    /\ ret.op = "closeGroup"
    /\ ret.pre.confirmedLast > 0
    /\ Len(heap[1].groupOpenIdx) >= 1
    /\ heap[1].confirmedLast > heap[1].groupOpenIdx[1]
    /\ BLen(heap[1].buf) < BLen(ret.pre.buf)
    /\ BLen(heap[1].buf) = heap[1].confirmedLast

\* the processes of procs for which has(p) holds, in order
RECURSIVE Those(_, _, _)
Those(procs, i, hook) ==
    IF i > Len(procs) THEN <<>>
    ELSE (IF procs[i][hook] THEN <<i>> ELSE <<>>) \o Those(procs, i + 1, hook)

\* C34: when the configuration is parsed every Register hook has run, after
\* the registration of the tools and in process order; the Init functions
\* run in process order, and all of them have run when a Start function is
\* launched; a Stop function is launched only after run received a signal in
\* its select or received the result of a Start function.
C34_PhasesInOrder ==
    LET r == runner
    IN  /\ r.parsed => r.registered = <<0>> \o Those(r.procs, 1, "Register")
        /\ \A k \in 1..Len(r.inits) :
              /\ r.procs[r.inits[k]].Init
              /\ k > 1 => r.inits[k - 1] < r.inits[k]
        /\ r.inits # <<>> => r.parsed
        /\ r.funcs # {} => r.inits = Those(r.procs, 1, "Init")
        /\ (\E f \in r.funcs : f.phase = "stop") => r.trigger # "none"

C34_Witness ==
    /\ Len(runner.registered) = 2
    /\ Len(runner.inits) = 2
    /\ runner.trigger = "signal"
    /\ \E f \in runner.funcs : f.phase = "stop" /\ f.st = "running"
    /\ \E f \in runner.funcs : f.phase = "run" /\ f.st = "running"

\* C35: once run has received a signal in its select or the result of a
\* Start function, and every Start and Stop function returns, run returns.
C35_RunReturnsAfterShutdown ==
    (runner.trigger # "none") ~> (runner.pc = "done")

\* C36: when a signal that arrived while run was in countExit has been taken
\* from the channel, by whichever receiver, the context of the Stop
\* functions that are still running is cancelled.
C36_LateSignalCancelsStop ==
    (runner.forced /\ \E f \in runner.funcs : f.phase = "stop")
       => runner.stopCtx = "cancelled"

\* C37: when an Init function has returned an error, run has returned an
\* error that names its process, it was the last Init to run, and no Start
\* or Stop function was launched.
C37_InitErrorEndsRun ==
    LET r == runner
    IN  r.initErr # 0 =>
           /\ r.pc = "done"
           /\ r.result = Error("init process", r.procs[r.initErr].Name)
           /\ r.procs[r.initErr].Name # ""
           /\ r.inits[Len(r.inits)] = r.initErr
           /\ r.funcs = {} /\ r.ctr = 0
           /\ r.startc = "open" /\ r.stopCtx = "none"

C37_Witness ==
    /\ runner.initErr = 2
    /\ runner.inits = <<1, 2>>
    /\ runner.procs[1].Start
    /\ runner.result = Error("init process", "p")

\* C38: when run returns after the Start loop, no runFunc goroutine is left
\* running or sending, and the error is non-nil exactly when some Start or
\* Stop function returned an error.
C38_AllResultsReceived ==
    LET r == runner
    IN  (r.pc = "done" /\ r.startc = "closed") =>
           /\ r.funcs = {}
           /\ r.ctr = 0
           /\ (r.result # nil) <=> r.failed
           /\ r.result \in {nil, Error("errors during run", "")}

C38_Witness ==
    /\ runner.pc = "done"
    /\ runner.startc = "closed"
    /\ runner.failed
    /\ runner.result = Error("errors during run", "")
    /\ runner.trigger = "exit"
    /\ Len(runner.procs) = 2

\* C16: every buffer the pool can hand out has at least the standard
\* capacity, so the re-slice of a pooled buffer in state.clone never goes
\* out of bounds.
C16_PooledCapacityAtLeastStandard ==
    /\ \A b \in BagToSet(pool) : b.cap >= stateBufferSize
    /\ ~panicked

\* C17: the pool never holds a buffer whose capacity exceeds the standard
\* capacity: oversized buffers are discarded, not pooled.
C17_OversizedNeverPooled ==
    \A b \in BagToSet(pool) : b.cap <= stateBufferSize

====
